---- MODULE Spec2Model ----
(***************************************************************************)
(* A model of fumin/qising: the matrix-product-state ground state search   *)
(* (mps/mps.go, mps/hamiltonian.go) and the iterative solvers it drives    *)
(* (the tensor package: Arnoldi, Eig).                                     *)
(*                                                                         *)
(* Floating-point tensors are modelled symbolically.  A site tensor is a   *)
(* chain of factors (one rank-3 core and the bond matrices multiplied into *)
(* it), a matrix is a term built by the calls the code makes (Reshape, H,  *)
(* QR), and the only laws used are those the tests pin down for the        *)
(* factorization: a = q @ r, q.H @ q = I, H(H(a)) = a, and that a reshape  *)
(* followed by its inverse is the same tensor.  Shapes are concrete        *)
(* integers.  Outcomes that depend on floating-point values (an iterative  *)
(* solver converging, a norm below epsilon) are nondeterministic inputs.   *)
(***************************************************************************)
EXTENDS Integers, Sequences, FiniteSets, TLC

VARIABLES ms, fs, sgs, arn, eig, nrm, bld, srt, mat

vars == <<ms, fs, sgs, arn, eig, nrm, bld, srt, mat>>

\* ------------------------------------------------------------------ bounds
MaxL == 3
MaxPhys == 2
MaxBond == 2

Min(a, b) == IF a < b THEN a ELSE b
Max(a, b) == IF a > b THEN a ELSE b

\* ------------------------------------------------------------ term algebra
\* A term: op names the call that built it, id distinguishes atoms, arg are
\* the operands (a chain for an unfolding, a one-element sequence otherwise).
T(op, arg) == [op |-> op, id |-> 0, arg |-> arg]
Atom(i) == [op |-> "A", id |-> i, arg |-> <<>>]

\* Dense.H(): conjugate transpose, an involution.
H(a) ==
  [t |-> IF a.t.op = "H" THEN a.t.arg[1] ELSE T("H", <<a.t>>),
   rows |-> a.cols, cols |-> a.rows]

\* ms[i].Reshape(dLeft*dUp, dRight): the left unfolding of a site.
\* With a physical extent of 1 both unfoldings are the same matrix.
UnfoldLeft(site) ==
  [t |-> IF Len(site.val) = 1 /\ (\/ site.val[1].op = "FoldL"
                                  \/ site.val[1].op = "FoldR" /\ site.shape[2] = 1)
         THEN site.val[1].arg[1] ELSE T("UnfL", site.val),
   rows |-> site.shape[1] * site.shape[2], cols |-> site.shape[3]]

\* ms[i].Reshape(dLeft, dUp*dRight): the right unfolding of a site.
UnfoldRight(site) ==
  [t |-> IF Len(site.val) = 1 /\ (\/ site.val[1].op = "FoldR"
                                  \/ site.val[1].op = "FoldL" /\ site.shape[2] = 1)
         THEN site.val[1].arg[1] ELSE T("UnfR", site.val),
   rows |-> site.shape[1], cols |-> site.shape[2] * site.shape[3]]

\* m.Reshape(-1, dUp, k) of a matrix with rows (left, up).
FoldLeft(m, dUp) ==
  [shape |-> <<m.rows \div dUp, dUp, m.cols>>,
   val |-> IF m.t.op = "UnfL" THEN m.t.arg ELSE <<T("FoldL", <<m.t>>)>>]

\* m.Reshape(-1, dUp, dRight) of a matrix with columns (up, right).
FoldRight(m, dUp, dRight) ==
  [shape |-> <<m.rows, dUp, dRight>>,
   val |-> IF m.t.op = "UnfR" THEN m.t.arg ELSE <<T("FoldR", <<m.t>>)>>]

\* tensor.QR(q, a, bufs): a = q @ r with q of shape (m, min(m, n)) having
\* orthonormal columns and r of shape (min(m, n), n).
QR(a) ==
  [q |-> [t |-> T("Q", <<a.t>>), rows |-> a.rows, cols |-> Min(a.rows, a.cols)],
   r |-> [t |-> T("R", <<a.t>>), rows |-> Min(a.rows, a.cols), cols |-> a.cols]]

\* lq: a = l @ q.H, by the QR decomposition of a.H.
lq(a) ==
  LET d == QR(H(a)) IN [q |-> d.q, l |-> H(d.r)]

\* q.H @ q = I: the matrix has orthonormal columns.  A square q is unitary,
\* so q.H has orthonormal columns too.
IsIsometry(m) ==
  \/ m.t.op = "Q"
  \/ m.t.op = "H" /\ m.t.arg[1].op = "Q" /\ m.rows = m.cols

\* A site of shape (1, d, 1) is a vector: both contractions give its norm.
IsVector(site) == site.shape[1] = 1 /\ site.shape[3] = 1

\* Contracting the site with its conjugate over (left, up) gives the identity.
LeftCanonical(site) ==
  \/ IsIsometry(UnfoldLeft(site))
  \/ IsVector(site) /\ IsIsometry(H(UnfoldRight(site)))
\* Contracting the site with its conjugate over (right, up) gives the identity.
RightCanonical(site) ==
  \/ IsIsometry(H(UnfoldRight(site)))
  \/ IsVector(site) /\ IsIsometry(UnfoldLeft(site))

\* Two neighbouring factors of a chain that multiply to a known tensor:
\* Fold(q) @ r = Fold(a) and l @ Fold(q.H) = Fold(a) where l = r.H.
Cancels(a, b) ==
  \/ /\ a.op = "FoldL" /\ b.op = "R"
     /\ a.arg[1].op = "Q"
     /\ a.arg[1].arg = b.arg
  \/ /\ a.op = "H" /\ b.op = "FoldR"
     /\ a.arg[1].op = "R"
     /\ b.arg[1].op = "H"
     /\ b.arg[1].arg[1].op = "Q"
     /\ b.arg[1].arg[1].arg = a.arg[1].arg

Merged(a, b) ==
  IF a.op = "FoldL"
  THEN LET x == b.arg[1] IN
       IF x.op = "UnfL" THEN x.arg ELSE <<T("FoldL", <<x>>)>>
  ELSE LET y == a.arg[1].arg[1]
           x == IF y.op = "H" THEN y.arg[1] ELSE T("H", <<y>>) IN
       IF x.op = "UnfR" THEN x.arg ELSE <<T("FoldR", <<x>>)>>

RECURSIVE Reduce(_)
Reduce(c) ==
  IF \E k \in 1..(Len(c) - 1) : Cancels(c[k], c[k + 1])
  THEN LET k == CHOOSE j \in 1..(Len(c) - 1) :
                  /\ Cancels(c[j], c[j + 1])
                  /\ \A j2 \in 1..(j - 1) : ~Cancels(c[j2], c[j2 + 1])
       IN Reduce(SubSeq(c, 1, k - 1) \o Merged(c[k], c[k + 1])
                 \o SubSeq(c, k + 2, Len(c)))
  ELSE c

\* product: m0 @ m1 @ ... contracted over the bonds, the dense state.
RECURSIVE Concat(_, _)
Concat(sites, n) ==
  IF n = 0 THEN <<>> ELSE Concat(sites, n - 1) \o sites[n].val
product(sites) == Reduce(Concat(sites, Len(sites)))

\* resetCopy(ms[i+1], tensor.Product(bufs[1], r, ms[i+1], {1, mpsLeftAxis})).
MulLeft(r, site) ==
  [shape |-> <<r.rows, site.shape[2], site.shape[3]>>, val |-> <<r.t>> \o site.val]
\* resetCopy(ms[i-1], tensor.Product(bufs[1], ms[i-1], l, {mpsRightAxis, 0})).
MulRight(site, l) ==
  [shape |-> <<site.shape[1], site.shape[2], l.cols>>, val |-> site.val \o <<l.t>>]

\* Mutant: the remainder is folded into ms[i-1] but q.H is never stored.
rightNormalize_keepsSite(sites, i) ==
  LET d == lq(UnfoldRight(sites[i]))
  IN [sites EXCEPT ![i - 1] = MulRight(sites[i - 1], d.l)]

rightNormalize(sites, i) ==
  LET s == sites[i].shape
      d == lq(UnfoldRight(sites[i]))
  IN [sites EXCEPT ![i - 1] = MulRight(sites[i - 1], d.l),
                   ![i] = FoldRight(H(d.q), s[2], s[3])]

\* Mutant: q is stored but the remainder r is dropped.
leftNormalize_dropsR(sites, i) ==
  LET s == sites[i].shape
      d == QR(UnfoldLeft(sites[i]))
  IN [sites EXCEPT ![i + 1] = [@ EXCEPT !.shape[1] = d.r.rows],
                   ![i] = FoldLeft(d.q, s[2])]

leftNormalize(sites, i) ==
  LET s == sites[i].shape
      d == QR(UnfoldLeft(sites[i]))
  IN [sites EXCEPT ![i + 1] = MulLeft(d.r, sites[i + 1]),
                   ![i] = FoldLeft(d.q, s[2])]

\* -------------------------------------------------- normalization alone
\* The matrix product states the normalization is run on: every chain of
\* sites whose bonds agree, with boundary bonds 1.  Positions are 1-based:
\* position p holds the code's site p-1.
RECURSIVE BondSeqs(_)
BondSeqs(n) ==
  IF n = 0 THEN {<<>>}
  ELSE {Append(b, x) : b \in BondSeqs(n - 1), x \in 1..MaxBond}

MPSOf(len, d, bonds) ==
  [p \in 1..len |->
     [shape |-> <<IF p = 1 THEN 1 ELSE bonds[p - 1], d,
                  IF p = len THEN 1 ELSE bonds[p]>>,
      val |-> <<Atom(p)>>]]

AllMPS ==
  UNION {{MPSOf(len, d, b) : d \in 1..MaxPhys, b \in BondSeqs(len - 1)} :
         len \in 1..MaxL}

Idle == [pc |-> "idle"]

InitNorm ==
  /\ ms \in AllMPS
  /\ fs = <<>>
  /\ sgs = Idle /\ arn = Idle /\ eig = Idle /\ bld = Idle
  /\ srt = Idle /\ mat = Idle
  /\ nrm = [pc |-> "idle", i |-> 0, calls |-> 0, done |-> "none", state |-> product(ms)]

MaxCalls == 2

\* rightNormalizeAll: for i := len(ms)-1; i >= 1; i--.
CallRightNormalizeAll ==
  /\ nrm.pc = "idle" /\ nrm.calls < MaxCalls
  /\ nrm' = [nrm EXCEPT !.pc = "right", !.i = Len(ms), !.calls = @ + 1,
                        !.state = product(ms)]
  /\ UNCHANGED <<ms, fs, sgs, arn, eig, bld, srt, mat>>

RightNormalizeStep ==
  /\ nrm.pc = "right" /\ nrm.i >= 2
  /\ ms' = rightNormalize(ms, nrm.i)
  /\ nrm' = [nrm EXCEPT !.i = @ - 1]
  /\ UNCHANGED <<fs, sgs, arn, eig, bld, srt, mat>>

RightNormalizeAllReturn ==
  /\ nrm.pc = "right" /\ nrm.i < 2
  /\ nrm' = [nrm EXCEPT !.pc = "idle", !.done = "right"]
  /\ UNCHANGED <<ms, fs, sgs, arn, eig, bld, srt, mat>>

\* leftNormalizeAll: for i := range len(ms) - 1.
CallLeftNormalizeAll ==
  /\ nrm.pc = "idle" /\ nrm.calls < MaxCalls
  /\ nrm' = [nrm EXCEPT !.pc = "left", !.i = 1, !.calls = @ + 1,
                        !.state = product(ms)]
  /\ UNCHANGED <<ms, fs, sgs, arn, eig, bld, srt, mat>>

LeftNormalizeStep ==
  /\ nrm.pc = "left" /\ nrm.i <= Len(ms) - 1
  /\ ms' = leftNormalize(ms, nrm.i)
  /\ nrm' = [nrm EXCEPT !.i = @ + 1]
  /\ UNCHANGED <<fs, sgs, arn, eig, bld, srt, mat>>

LeftNormalizeAllReturn ==
  /\ nrm.pc = "left" /\ nrm.i > Len(ms) - 1
  /\ nrm' = [nrm EXCEPT !.pc = "idle", !.done = "left"]
  /\ UNCHANGED <<ms, fs, sgs, arn, eig, bld, srt, mat>>

NextNorm ==
  \/ CallRightNormalizeAll
  \/ RightNormalizeStep
  \/ RightNormalizeAllReturn
  \/ CallLeftNormalizeAll
  \/ LeftNormalizeStep
  \/ LeftNormalizeAllReturn

SpecNorm == InitNorm /\ [][NextNorm]_vars

\* ------------------------------------------------ construction of MPO, MPS
MaxN == 3
MaxMPOLen == 5
MaxD == 5

RECURSIVE Pow(_, _)
Pow(b, e) == IF e = 0 THEN 1 ELSE b * Pow(b, e - 1)

RECURSIVE Prod(_, _, _)
\* shape[from] * ... * shape[to]
Prod(shape, from, to) ==
  IF from > to THEN 1 ELSE shape[from] * Prod(shape, from + 1, to)

\* The bulk tensors, as matrices of 2x2 operators (axes left, right).
IsingW ==
  <<<<"I", "0", "0">>,
    <<"Z", "0", "0">>,
    <<"-hX", "-Z", "I">>>>
MagnetizationZW ==
  <<<<"I", "0">>,
    <<"Z", "I">>>>

\* w.Slice({r0, r1}, {c0, c1}, {0, d2}, {0, d3}), bounds 0-based, end excluded.
Slice(w, r0, r1, c0, c1) ==
  [r \in 1..(r1 - r0) |-> [c \in 1..(c1 - c0) |-> w[r0 + r][c0 + c]]]

\* An MPO site: the block of operators and its shape (left, right, up, down).
MPOSite(block) ==
  [shape |-> <<Len(block), Len(block[1]), 2, 2>>, w |-> block]

\* Mutant: one site per spin of the lattice.
newMPO_allSpins(w, n) ==
  LET d0 == Len(w)
      d1 == Len(w[1])
      inner == Max(n[1] * n[2] - 2, 0)
  IN <<MPOSite(Slice(w, d0 - 1, d0, 0, d1))>>
     \o [j \in 1..inner |-> MPOSite(w)]
     \o <<MPOSite(Slice(w, 0, d0, 0, 1))>>

\* newMPO: w[-1], then n[0]-2 copies of w, then w[:, 0].
newMPO(w, n) ==
  LET d0 == Len(w)
      d1 == Len(w[1])
      inner == Max(n[1] - 2, 0)
  IN <<MPOSite(Slice(w, d0 - 1, d0, 0, d1))>>
     \o [j \in 1..inner |-> MPOSite(w)]
     \o <<MPOSite(Slice(w, 0, d0, 0, 1))>>

Ising(n) == newMPO(IsingW, n)
MagnetizationZ(n) == newMPO(MagnetizationZW, n)

\* randTensor(shape...): a tensor of arbitrary entries.
randTensor(p, shape) == [shape |-> shape, val |-> <<Atom(p)>>]

\* The loop of RandMPS over the interior sites i = 1..len(mpo)-2 (0-based).
RECURSIVE RandMPSLoop(_, _, _, _, _)
RandMPSLoop(mpo, maxD, sites, leftD, i) ==
  IF i > Len(mpo) - 2 THEN sites
  ELSE LET physD == mpo[i + 1].shape[4]
           half == Len(mpo) \div 2
           rightD == IF i < half THEN leftD * physD
                     ELSE IF i > half THEN leftD \div physD
                     ELSE IF Len(mpo) % 2 = 0 THEN leftD \div physD
                     ELSE leftD
           si1 == sites[i].shape
       IN RandMPSLoop(mpo, maxD,
            Append(sites, randTensor(i + 1, <<si1[3], physD, Min(rightD, maxD)>>)),
            rightD, i + 1)

\* Mutant: the site at the middle of an even chain keeps the bond.
RECURSIVE RandMPSLoop_evenMiddle(_, _, _, _, _)
RandMPSLoop_evenMiddle(mpo, maxD, sites, leftD, i) ==
  IF i > Len(mpo) - 2 THEN sites
  ELSE LET physD == mpo[i + 1].shape[4]
           half == Len(mpo) \div 2
           rightD == IF i < half THEN leftD * physD
                     ELSE IF i > half THEN leftD \div physD
                     ELSE leftD
           si1 == sites[i].shape
       IN RandMPSLoop_evenMiddle(mpo, maxD,
            Append(sites, randTensor(i + 1, <<si1[3], physD, Min(rightD, maxD)>>)),
            rightD, i + 1)

RandMPS_evenMiddle(mpo, maxD) ==
  LET physD0 == mpo[1].shape[4]
      first == <<randTensor(1, <<1, physD0, Min(physD0, maxD)>>)>>
      inner == RandMPSLoop_evenMiddle(mpo, maxD, first, physD0, 1)
      physDL == mpo[Len(mpo)].shape[4]
  IN Append(inner, randTensor(Len(mpo), <<inner[Len(mpo) - 1].shape[3], physDL, 1>>))

RandMPS(mpo, maxD) ==
  LET physD0 == mpo[1].shape[4]
      first == <<randTensor(1, <<1, physD0, Min(physD0, maxD)>>)>>
      inner == RandMPSLoop(mpo, maxD, first, physD0, 1)
      physDL == mpo[Len(mpo)].shape[4]
  IN Append(inner, randTensor(Len(mpo), <<inner[Len(mpo) - 1].shape[3], physDL, 1>>))

\* state.Reshape(leftD*physD, -1) of the remaining state (leftD, rest).
Refold(m, physD) ==
  [t |-> IF physD = 1 THEN m.t ELSE T("Reshape", <<m.t>>),
   rows |-> m.rows * physD, cols |-> m.cols \div physD]

\* The loop of NewMPS over shape[:len(shape)-1]; state is the matrix still
\* to be decomposed, of shape (leftD, rest).
RECURSIVE NewMPSLoop(_, _, _, _)
NewMPSLoop(shape, sites, state, j) ==
  IF j > Len(shape) - 1
  THEN Append(sites, FoldRight(state, shape[Len(shape)], 1))
  ELSE LET physD == shape[j]
           d == QR(Refold(state, physD))
       IN NewMPSLoop(shape, Append(sites, FoldLeft(d.q, physD)), d.r, j + 1)

\* Mutant: the next left bond is read from the wrong axis of r.
RECURSIVE NewMPSLoop_wrongAxis(_, _, _, _)
NewMPSLoop_wrongAxis(shape, sites, state, j) ==
  IF j > Len(shape) - 1
  THEN Append(sites, FoldRight(state, shape[Len(shape)], 1))
  ELSE LET physD == shape[j]
           d == QR(Refold(state, physD))
           q == [d.q EXCEPT !.cols = d.r.cols]
           r == [d.r EXCEPT !.rows = d.r.cols]
       IN NewMPSLoop_wrongAxis(shape, Append(sites, FoldLeft(q, physD)), r, j + 1)

NewMPS_wrongAxis(shape) ==
  NewMPSLoop_wrongAxis(shape, <<>>,
             [t |-> Atom(0), rows |-> 1, cols |-> Prod(shape, 1, Len(shape))], 1)

\* Mutant: the reshaped state is stored in place of its factor q.
RECURSIVE NewMPSLoop_storesState(_, _, _, _)
NewMPSLoop_storesState(shape, sites, state, j) ==
  IF j > Len(shape) - 1
  THEN Append(sites, FoldRight(state, shape[Len(shape)], 1))
  ELSE LET physD == shape[j]
           a == Refold(state, physD)
           d == QR(a)
           q == [d.q EXCEPT !.t = T("Reshape", <<a.t>>)]
       IN NewMPSLoop_storesState(shape, Append(sites, FoldLeft(q, physD)), d.r, j + 1)

NewMPS_storesState(shape) ==
  NewMPSLoop_storesState(shape, <<>>,
             [t |-> Atom(0), rows |-> 1, cols |-> Prod(shape, 1, Len(shape))], 1)

NewMPS(shape) ==
  NewMPSLoop(shape, <<>>,
             [t |-> Atom(0), rows |-> 1, cols |-> Prod(shape, 1, Len(shape))], 1)

\* The shapes of the dense states handed to NewMPS.
RECURSIVE Shapes(_)
Shapes(n) ==
  IF n = 0 THEN {<<>>}
  ELSE {Append(b, x) : b \in Shapes(n - 1), x \in 1..(MaxPhys + 1)}

StateShapes == UNION {Shapes(n) : n \in 1..(MaxL + 1)}

\* An MPO of uniform physical extent d, as a caller may pass one to RandMPS.
UniformMPO(len, d) ==
  [p \in 1..len |->
     [shape |-> <<IF p = 1 THEN 1 ELSE 2, IF p = len THEN 1 ELSE 2, d, d>>,
      w |-> <<>>]]

InitBuild ==
  /\ ms = <<>> /\ fs = <<>>
  /\ sgs = Idle /\ arn = Idle /\ eig = Idle /\ nrm = Idle
  /\ srt = Idle /\ mat = Idle
  /\ \E len \in 2..MaxMPOLen, d \in 1..(MaxPhys + 1) :
        bld = [pc |-> "idle", op |-> "none", n |-> <<0, 0>>, w |-> <<>>,
               mpo |-> UniformMPO(len, d), maxD |-> 0, shape |-> <<>>]

DoIsing ==
  /\ bld.pc = "idle"
  /\ \E n0 \in 1..MaxN, n1 \in 1..MaxN :
        bld' = [bld EXCEPT !.pc = "mpo", !.op = "Ising", !.n = <<n0, n1>>,
                           !.w = IsingW, !.mpo = Ising(<<n0, n1>>)]
  /\ UNCHANGED <<ms, fs, sgs, arn, eig, nrm, srt, mat>>

DoMagnetizationZ ==
  /\ bld.pc = "idle"
  /\ \E n0 \in 1..MaxN, n1 \in 1..MaxN :
        bld' = [bld EXCEPT !.pc = "mpo", !.op = "MagnetizationZ", !.n = <<n0, n1>>,
                           !.w = MagnetizationZW,
                           !.mpo = MagnetizationZ(<<n0, n1>>)]
  /\ UNCHANGED <<ms, fs, sgs, arn, eig, nrm, srt, mat>>

DoRandMPS ==
  /\ bld.pc \in {"idle", "mpo"}
  /\ \E maxD \in 1..MaxD :
        /\ ms' = RandMPS(bld.mpo, maxD)
        /\ bld' = [bld EXCEPT !.pc = "done", !.op = "RandMPS", !.maxD = maxD]
  /\ UNCHANGED <<fs, sgs, arn, eig, nrm, srt, mat>>

DoNewMPS ==
  /\ bld.pc = "idle"
  /\ \E shape \in StateShapes :
        /\ ms' = NewMPS(shape)
        /\ bld' = [bld EXCEPT !.pc = "done", !.op = "NewMPS", !.shape = shape]
  /\ UNCHANGED <<fs, sgs, arn, eig, nrm, srt, mat>>

NextBuild ==
  \/ DoIsing
  \/ DoMagnetizationZ
  \/ DoRandMPS
  \/ DoNewMPS

SpecBuild == InitBuild /\ [][NextBuild]_vars

\* ------------------------------------------------------------ Arnoldi.Solve
MaxM == 4
MaxK == 2
MaxArnoldiIterations == 3
\* NewArnoldiOptions: krylovSpaceDim = -1 stands for max(2k+1, 20).
DefaultKrylovSpaceDim == 20
DefaultArnoldiMaxIterations == 64
NewArnoldiOptions ==
  [krylovSpaceDim |-> -1, maxIterations |-> DefaultArnoldiMaxIterations]

\* The first lines of Solve: the options, the Krylov dimension clipped to m,
\* the random first column of q, start = 1.
ArnoldiEntry(m, k, options, caller) ==
  LET opt == IF Len(options) > 0 THEN options[1] ELSE NewArnoldiOptions
      kd == IF opt.krylovSpaceDim < 0 THEN Max(2 * k + 1, DefaultKrylovSpaceDim)
            ELSE opt.krylovSpaceDim
  IN [pc |-> "loop", caller |-> caller, m |-> m, k |-> k,
      krylovSpaceDim |-> Min(m, kd), maxIterations |-> opt.maxIterations,
      it |-> 0, start |-> 1, pass |-> <<>>,
      cvg |-> [converged |-> FALSE, numConverged |-> 0],
      iterates |-> 0, expanded |-> {}, restarts |-> 0, shifts |-> <<>>,
      allPassed |-> 0, eigFailed |-> FALSE,
      ret |-> "none", out |-> "nil"]

\* Mutant: one converged pair is enough.
arnoldiConverged_any(pass) ==
  LET n == Cardinality({i \in 1..Len(pass) : pass[i]})
  IN [converged |-> n >= 1, numConverged |-> n]

\* arnoldiConverged: pass[i] is the outcome of diff < tol*max(1, |lambda|)
\* for the i-th wanted Ritz pair.
arnoldiConverged(pass) ==
  LET n == Cardinality({i \in 1..Len(pass) : pass[i]})
  IN [converged |-> n = Len(pass), numConverged |-> n]

\* Solve's loop head: for _ = range opt.maxIterations, then iterate(a, k,
\* start), which expands the columns i = start..krylovSpaceDim.
ArnoldiIterate ==
  /\ arn.pc = "loop" /\ arn.it < arn.maxIterations
  /\ arn' = [arn EXCEPT !.pc = "eig", !.iterates = @ + 1,
                        !.expanded = arn.start..arn.krylovSpaceDim]
  /\ UNCHANGED <<ms, fs, sgs, eig, nrm, bld, srt, mat>>

\* solver.eig.Solve(h) fails: return nil, nil, err.
ArnoldiEigFails ==
  /\ arn.pc = "eig"
  /\ arn' = [arn EXCEPT !.pc = "done", !.eigFailed = TRUE, !.ret = "err",
                        !.out = "nil"]
  /\ UNCHANGED <<ms, fs, sgs, eig, nrm, bld, srt, mat>>

\* solver.eig.Solve(h) succeeds and all wanted pairs pass: the eigenpairs are
\* stored and the loop is left.
ArnoldiConverges ==
  /\ arn.pc = "eig"
  /\ \E pass \in [1..arn.k -> BOOLEAN] :
        LET c == arnoldiConverged(pass) IN
        /\ c.converged
        /\ arn' = [arn EXCEPT !.pc = "exit", !.cvg = c, !.pass = pass,
                     !.allPassed = @ + (IF \A i \in 1..arn.k : pass[i] THEN 1 ELSE 0),
                     !.out = "eigenpairs"]
  /\ UNCHANGED <<ms, fs, sgs, eig, nrm, bld, srt, mat>>

\* Mutant: the wanted set grows by the converged pairs, without the cap.
RestartStart_noCap(k, numConverged, krylovSpaceDim) == k + numConverged

\* Mutant: the cap on the wanted set rounds the half of the free columns up.
RestartStart_roundsUp(k, numConverged, krylovSpaceDim) ==
  Min(k + numConverged, k + (krylovSpaceDim - k + 1) \div 2)

\* start = k + cvg.numConverged; start = min(start, k + (krylovSpaceDim-k)/2).
RestartStart(k, numConverged, krylovSpaceDim) ==
  Min(k + numConverged, k + (krylovSpaceDim - k) \div 2)

\* implicitlyRestart(eigvals[start:], ...): the positions (0-based) of the
\* Ritz values used as shifts, in the order of their bulge chases.
implicitlyRestart(start, krylovSpaceDim) ==
  [i \in 1..(krylovSpaceDim - start) |-> start + i - 1]

\* Not converged: start = min(k + numConverged, k + (krylovSpaceDim-k)/2),
\* implicitlyRestart with the Ritz values [start, krylovSpaceDim) as shifts,
\* then the next iteration.
ArnoldiRestarts ==
  /\ arn.pc = "eig"
  /\ \E pass \in [1..arn.k -> BOOLEAN] :
        LET c == arnoldiConverged(pass)
            start == RestartStart(arn.k, c.numConverged, arn.krylovSpaceDim) IN
        /\ ~c.converged
        /\ arn' = [arn EXCEPT !.pc = "loop", !.cvg = c, !.pass = pass,
                     !.allPassed = @ + (IF \A i \in 1..arn.k : pass[i] THEN 1 ELSE 0),
                     !.start = start,
                     !.shifts = implicitlyRestart(start, arn.krylovSpaceDim),
                     !.restarts = @ + 1, !.it = @ + 1]
  /\ UNCHANGED <<ms, fs, sgs, eig, nrm, bld, srt, mat>>

\* The loop ran out of iterations.
ArnoldiLoopEnds ==
  /\ arn.pc = "loop" /\ arn.it >= arn.maxIterations
  /\ arn' = [arn EXCEPT !.pc = "exit"]
  /\ UNCHANGED <<ms, fs, sgs, eig, nrm, bld, srt, mat>>

\* After the loop: if !cvg.converged return nil, nil, "not converged".
ArnoldiReturn ==
  /\ arn.pc = "exit"
  /\ arn' = [arn EXCEPT !.pc = "done",
                        !.ret = IF arn.cvg.converged THEN "ok" ELSE "err",
                        !.out = IF arn.cvg.converged THEN "eigenpairs" ELSE "nil"]
  /\ UNCHANGED <<ms, fs, sgs, eig, nrm, bld, srt, mat>>

NextArnoldi ==
  \/ ArnoldiIterate
  \/ ArnoldiEigFails
  \/ ArnoldiConverges
  \/ ArnoldiRestarts
  \/ ArnoldiLoopEnds
  \/ ArnoldiReturn

InitArnoldi ==
  /\ ms = <<>> /\ fs = <<>>
  /\ sgs = Idle /\ eig = Idle /\ nrm = Idle /\ bld = Idle
  /\ srt = Idle /\ mat = Idle
  /\ \E m \in 1..MaxM, k \in 1..MaxK,
        options \in {<<>>} \cup
                    {<<[krylovSpaceDim |-> kd, maxIterations |-> n]>> :
                       kd \in {-1} \cup 1..MaxM, n \in 0..MaxArnoldiIterations} :
        /\ arn = ArnoldiEntry(m, k, options, "none")
        /\ k <= arn.krylovSpaceDim

SpecArnoldi == InitArnoldi /\ [][NextArnoldi]_vars

\* ---------------------------------------------------------------- Eig.solve
MaxEigM == 4
\* for _ = range 32: the cap on the sweeps of one block.
MaxSweeps == 32

\* A subdiagonal entry a[i, i-1] is "0" (exactly zero), "s" (nonzero, below
\* epsilon*(|a[i,i]| + |a[i-1,i-1]|)) or "b" (nonzero, not below it).  sub[i]
\* stands for a[i, i-1], i in 1..m-1.
SubEntries == {"0", "s", "b"}

deflate(sub) ==
  [i \in 1..Len(sub) |-> IF sub[i] = "s" THEN "0" ELSE sub[i]]

\* Mutant: p is the first zero below the block's end, not the last one.
findUnreducedHessenberg_firstZero(sub, m) ==
  LET d == deflate(sub)
      nz == {i \in 1..(m - 1) : d[i] # "0"}
      q == IF nz = {} THEN m
           ELSE m - 1 - (CHOOSE i \in nz : \A j \in nz : j <= i)
      zs == {i \in 1..(m - 1 - q - 1) : d[i] = "0"}
      p == IF zs = {} THEN 0 ELSE CHOOSE i \in zs : \A j \in zs : i <= j
  IN [sub |-> d, p |-> p, q |-> q]

\* findUnreducedHessenberg on an m x m matrix: the deflated subdiagonal and
\* the pair (p, q).
findUnreducedHessenberg(sub, m) ==
  LET d == deflate(sub)
      nz == {i \in 1..(m - 1) : d[i] # "0"}
      q == IF nz = {} THEN m
           ELSE m - 1 - (CHOOSE i \in nz : \A j \in nz : j <= i)
      zs == {i \in 1..(m - 1 - q - 1) : d[i] = "0"}
      p == IF zs = {} THEN 0 ELSE CHOOSE i \in zs : \A j \in zs : j <= i
  IN [sub |-> d, p |-> p, q |-> q]

\* solve's outer loop head: p, q := findUnreducedHessenberg(solver.a); q == m
\* leaves the loop, otherwise the block h22 is selected.
EigFindBlock ==
  /\ eig.pc = "outer"
  /\ LET f == findUnreducedHessenberg(eig.sub, eig.m) IN
       eig' = [eig EXCEPT !.sub = f.sub, !.p = f.p, !.q = f.q,
                 !.pc = IF f.q = eig.m THEN "collect" ELSE "inner",
                 !.blocks = IF f.q = eig.m THEN @ ELSE @ + 1,
                 !.sweeps = 0, !.converged = FALSE]
  /\ UNCHANGED <<ms, fs, sgs, arn, nrm, bld, srt, mat>>

\* Mutant: the sweeps go on after the block has deflated.
EigSweep_keepsSweeping ==
  /\ eig.pc = "inner" /\ eig.sweeps < MaxSweeps
  /\ LET hm == eig.m - eig.q - eig.p IN
     \E new \in [1..(hm - 1) -> SubEntries] :
       LET f == findUnreducedHessenberg(new, hm)
           conv == ~(f.p = 0 /\ f.q = 0) IN
       eig' = [eig EXCEPT
                 !.sub = [i \in 1..Len(eig.sub) |->
                            IF i > eig.p /\ i < eig.p + hm
                            THEN f.sub[i - eig.p] ELSE eig.sub[i]],
                 !.sweeps = @ + 1, !.converged = conv,
                 !.pc = IF conv /\ eig.sweeps + 1 >= MaxSweeps THEN "outer"
                        ELSE "inner"]
  /\ UNCHANGED <<ms, fs, sgs, arn, nrm, bld, srt, mat>>

\* Mutant: the chase also fills the subdiagonal entries next to the block.
EigSweep_fillsNeighbours ==
  /\ eig.pc = "inner" /\ eig.sweeps < MaxSweeps
  /\ LET hm == eig.m - eig.q - eig.p IN
     \E new \in [1..(hm - 1) -> SubEntries] :
       LET f == findUnreducedHessenberg(new, hm)
           conv == ~(f.p = 0 /\ f.q = 0) IN
       eig' = [eig EXCEPT
                 !.sub = [i \in 1..Len(eig.sub) |->
                            IF i > eig.p /\ i < eig.p + hm
                            THEN f.sub[i - eig.p]
                            ELSE IF i = eig.p \/ i = eig.p + hm THEN "b"
                            ELSE eig.sub[i]],
                 !.sweeps = @ + 1, !.converged = conv,
                 !.pc = IF conv THEN "outer" ELSE "inner"]
  /\ UNCHANGED <<ms, fs, sgs, arn, nrm, bld, srt, mat>>

\* One pass of the inner loop: the shifted bulge chase rewrites the block's
\* subdiagonal, findUnreducedHessenberg(h22) deflates it, and a pair other
\* than (0, 0) sets converged and leaves the inner loop.
EigSweep ==
  /\ eig.pc = "inner" /\ eig.sweeps < MaxSweeps
  /\ LET hm == eig.m - eig.q - eig.p IN
     \E new \in [1..(hm - 1) -> SubEntries] :
       LET f == findUnreducedHessenberg(new, hm)
           conv == ~(f.p = 0 /\ f.q = 0) IN
       eig' = [eig EXCEPT
                 !.sub = [i \in 1..Len(eig.sub) |->
                            IF i > eig.p /\ i < eig.p + hm
                            THEN f.sub[i - eig.p] ELSE eig.sub[i]],
                 !.sweeps = @ + 1, !.converged = conv,
                 !.pc = IF conv THEN "outer" ELSE "inner"]
  /\ UNCHANGED <<ms, fs, sgs, arn, nrm, bld, srt, mat>>

\* The inner loop ran 32 times without a deflation: solve returns "not
\* converged" and Solve returns nil, nil, err before sortEigen.
EigNotConverged ==
  /\ eig.pc = "inner" /\ eig.sweeps >= MaxSweeps /\ ~eig.converged
  /\ eig' = [eig EXCEPT !.pc = "done", !.ret = "err", !.out = "nil"]
  /\ UNCHANGED <<ms, fs, sgs, arn, nrm, bld, srt, mat>>

\* q == m: the eigenvalues are collected from the diagonal, the eigenvectors
\* are computed, solve returns nil and Solve sorts the eigenpairs.
EigCollect ==
  /\ eig.pc = "collect"
  /\ eig' = [eig EXCEPT !.pc = "done", !.collected = TRUE, !.sorted = TRUE,
                        !.ret = "ok", !.out = "eigenpairs"]
  /\ UNCHANGED <<ms, fs, sgs, arn, nrm, bld, srt, mat>>

NextEig ==
  \/ EigFindBlock
  \/ EigSweep
  \/ EigNotConverged
  \/ EigCollect

\* The state after balance and Hessenberg: any subdiagonal.
InitEig ==
  /\ ms = <<>> /\ fs = <<>>
  /\ sgs = Idle /\ arn = Idle /\ nrm = Idle /\ bld = Idle
  /\ srt = Idle /\ mat = Idle
  /\ \E m \in 1..MaxEigM : \E sub \in [1..(m - 1) -> SubEntries] :
       eig = [pc |-> "outer", m |-> m, sub |-> sub, p |-> 0, q |-> 0,
              sweeps |-> 0, converged |-> FALSE, blocks |-> 0,
              collected |-> FALSE, sorted |-> FALSE,
              ret |-> "none", out |-> "nil"]

SpecEig == InitEig /\ [][NextEig]_vars

\* solve is sequential code: a step that can be taken is taken.
SpecEigFair == SpecEig /\ WF_vars(NextEig)

\* -------------------------------------------------------- SearchGroundState
MaxSGSIterations == 2
\* NewSearchGroundStateOptions: opt.maxIterations = 32.
DefaultMaxIterations == 32

\* An F expression: kind "ones" (ones(f, 1, 1, 1)), "L" or "R" (built by
\* lExpression or rExpression), "reset" (a tensor of shape (1)) or "bad" (a
\* contraction with operands that do not fit); d is the extent of its MPS
\* axes, src the sites it was contracted from, left to right.
OnesEnv == [kind |-> "ones", d |-> 1, src |-> <<>>]
ResetEnv == [kind |-> "reset", d |-> 0, src |-> <<>>]

lExpression(fi1, m) ==
  [kind |-> IF fi1.kind \in {"ones", "L"} /\ fi1.d = m.shape[1]
            THEN "L" ELSE "bad",
   d |-> m.shape[3], src |-> Append(fi1.src, m)]

rExpression(fi1, m) ==
  [kind |-> IF fi1.kind \in {"ones", "R"} /\ fi1.d = m.shape[3]
            THEN "R" ELSE "bad",
   d |-> m.shape[1], src |-> <<m>> \o fi1.src]

\* RExpressions: fi1 = ones(fs[len-1]), then fs[i] for i = len-1 .. 0.
RECURSIVE RExpressionsLoop(_, _, _, _)
RExpressionsLoop(envs, sites, fi1, i) ==
  IF i < 1 THEN envs
  ELSE LET fi == rExpression(fi1, sites[i])
       IN RExpressionsLoop([envs EXCEPT ![i] = fi], sites, fi, i - 1)
RExpressions(envs, sites) ==
  RExpressionsLoop([envs EXCEPT ![Len(envs)] = OnesEnv], sites, OnesEnv,
                   Len(sites))

RECURSIVE rightNormalizeLoop(_, _)
rightNormalizeLoop(sites, i) ==
  IF i < 2 THEN sites ELSE rightNormalizeLoop(rightNormalize(sites, i), i - 1)
rightNormalizeAll(sites) == rightNormalizeLoop(sites, Len(sites))

\* getH: the environments it contracts and the order of the square matrix.
getH(left, right, w) ==
  [left |-> left, right |-> right,
   rows |-> left.d * w.shape[3] * right.d,
   ok |-> left.kind \in {"ones", "L"} /\ right.kind \in {"ones", "R"}]

\* resetCopy(ms[l], eigvecs.Reshape(ms[l].Shape()...)): the eigenvector found
\* at the n-th site visit, in the shape of the site.
Eigvec(site, n) == [shape |-> site.shape, val |-> <<[op |-> "E", id |-> n, arg |-> <<>>]>>]

\* The call of SearchGroundState on a random MPS of the Ising chain: the
\* options are absent or carry maxIterations.
InitSGS ==
  /\ arn = Idle /\ eig = Idle /\ nrm = Idle /\ bld = Idle
  /\ srt = Idle /\ mat = Idle
  /\ \E len \in 2..MaxL, maxD \in 1..MaxBond,
        options \in {<<>>} \cup {<<n>> : n \in 0..MaxSGSIterations} :
       LET ws == Ising(<<len, 1>>) IN
       /\ ms = RandMPS(ws, maxD)
       /\ fs = [i \in 1..len |-> ResetEnv]
       /\ sgs = [pc |-> "start", ws |-> ws,
                 maxIterations |-> IF Len(options) > 0 THEN options[1]
                                   ELSE DefaultMaxIterations,
                 i |-> 0, l |-> 0, ok |-> FALSE, ret |-> "none",
                 h |-> <<>>, log |-> <<>>]

\* rightNormalizeAll(ms); RExpressions(fs, ws, ms); convergence.ok = false.
SGSCall ==
  /\ sgs.pc = "start"
  /\ ms' = rightNormalizeAll(ms)
  /\ fs' = RExpressions(fs, ms')
  /\ sgs' = [sgs EXCEPT !.pc = "loop"]
  /\ UNCHANGED <<arn, eig, nrm, bld, srt, mat>>

\* for i := range opt.maxIterations: the next iteration starts its right
\* sweep, or the loop is over.
SGSLoop ==
  /\ sgs.pc = "loop"
  /\ sgs' = [sgs EXCEPT !.pc = IF sgs.i < sgs.maxIterations THEN "rightSweep"
                               ELSE "exit",
                        !.l = 0]
  /\ UNCHANGED <<ms, fs, arn, eig, nrm, bld, srt, mat>>

\* rightSweep at site l: fLeft = ones(fs[l]) or fs[l-1], h = getH(fLeft,
\* fs[l+1], ws[l]), then the call of Arnoldi for one eigenpair.
RightSweepSite ==
  /\ sgs.pc = "rightSweep" /\ sgs.l < Len(ms) - 1
  /\ LET l == sgs.l
         fs1 == [fs EXCEPT ![l + 1] = OnesEnv]
         fLeft == IF l - 1 >= 0 THEN fs1[l] ELSE fs1[l + 1]
         h == getH(fLeft, fs1[l + 2], sgs.ws[l + 1]) IN
       /\ fs' = fs1
       /\ sgs' = [sgs EXCEPT !.pc = "rightSolve", !.h = h,
                             !.log = Append(@, <<"R", l>>)]
       /\ arn' = ArnoldiEntry(h.rows, 1, <<>>, "sgs")
  /\ UNCHANGED <<ms, eig, nrm, bld, srt, mat>>

\* Mutant: the failure of Arnoldi is dropped and the site keeps its tensor.
RightSweepFails_goesOn ==
  /\ sgs.pc = "rightSolve" /\ arn.pc = "done" /\ arn.ret = "err"
  /\ sgs' = [sgs EXCEPT !.pc = "rightSweep", !.l = @ + 1]
  /\ arn' = Idle
  /\ UNCHANGED <<ms, fs, eig, nrm, bld, srt, mat>>

\* Arnoldi failed: rightSweep returns the error and SearchGroundState
\* returns it wrapped.
RightSweepFails ==
  /\ sgs.pc = "rightSolve" /\ arn.pc = "done" /\ arn.ret = "err"
  /\ sgs' = [sgs EXCEPT !.pc = "done", !.ret = "err"]
  /\ UNCHANGED <<ms, fs, arn, eig, nrm, bld, srt, mat>>

\* Mutant: the eigenvector stays in ms[l] as it is, nothing is moved into
\* ms[l+1].
RightSweepSolved_notNormalized ==
  /\ sgs.pc = "rightSolve" /\ arn.pc = "done" /\ arn.ret = "ok"
  /\ LET l == sgs.l
         ms1 == [ms EXCEPT ![l + 1] = Eigvec(ms[l + 1], Len(sgs.log))] IN
       /\ ms' = ms1
       /\ fs' = [fs EXCEPT ![l + 2] = ResetEnv,
                           ![l + 1] = lExpression(sgs.h.left, ms1[l + 1])]
       /\ sgs' = [sgs EXCEPT !.pc = "rightSweep", !.l = l + 1]
       /\ arn' = Idle
  /\ UNCHANGED <<eig, nrm, bld, srt, mat>>

\* Mutant: leftNormalize runs on the old ms[l] and the eigenvector is written
\* afterwards.
RightSweepSolved_normalizesFirst ==
  /\ sgs.pc = "rightSolve" /\ arn.pc = "done" /\ arn.ret = "ok"
  /\ LET l == sgs.l
         ms1 == leftNormalize(ms, l + 1)
         ms2 == [ms1 EXCEPT ![l + 1] = Eigvec(ms[l + 1], Len(sgs.log))] IN
       /\ ms' = ms2
       /\ fs' = [fs EXCEPT ![l + 2] = ResetEnv,
                           ![l + 1] = lExpression(sgs.h.left, ms2[l + 1])]
       /\ sgs' = [sgs EXCEPT !.pc = "rightSweep", !.l = l + 1]
       /\ arn' = Idle
  /\ UNCHANGED <<eig, nrm, bld, srt, mat>>

\* Arnoldi succeeded: the eigenvector replaces ms[l], leftNormalize moves the
\* remainder into ms[l+1], fs[l+1] is reset and fs[l] is rebuilt.
RightSweepSolved ==
  /\ sgs.pc = "rightSolve" /\ arn.pc = "done" /\ arn.ret = "ok"
  /\ LET l == sgs.l
         ms1 == [ms EXCEPT ![l + 1] = Eigvec(ms[l + 1], Len(sgs.log))]
         ms2 == leftNormalize(ms1, l + 1) IN
       /\ ms' = ms2
       /\ fs' = [fs EXCEPT ![l + 2] = ResetEnv,
                           ![l + 1] = lExpression(sgs.h.left, ms2[l + 1])]
       /\ sgs' = [sgs EXCEPT !.pc = "rightSweep", !.l = l + 1]
       /\ arn' = Idle
  /\ UNCHANGED <<eig, nrm, bld, srt, mat>>

\* rightSweep returned nil: leftSweep starts at the last site.
RightSweepReturn ==
  /\ sgs.pc = "rightSweep" /\ sgs.l >= Len(ms) - 1
  /\ sgs' = [sgs EXCEPT !.pc = "leftSweep", !.l = Len(ms) - 1]
  /\ UNCHANGED <<ms, fs, arn, eig, nrm, bld, srt, mat>>

\* leftSweep at site l: fRight = ones(fs[l]) or fs[l+1], h = getH(fs[l-1],
\* fRight, ws[l]), then the call of Arnoldi.
LeftSweepSite ==
  /\ sgs.pc = "leftSweep" /\ sgs.l >= 1
  /\ LET l == sgs.l
         fs1 == [fs EXCEPT ![l + 1] = OnesEnv]
         fRight == IF l + 1 <= Len(ms) - 1 THEN fs1[l + 2] ELSE fs1[l + 1]
         h == getH(fs1[l], fRight, sgs.ws[l + 1]) IN
       /\ fs' = fs1
       /\ sgs' = [sgs EXCEPT !.pc = "leftSolve", !.h = h,
                             !.log = Append(@, <<"L", l>>)]
       /\ arn' = ArnoldiEntry(h.rows, 1, <<>>, "sgs")
  /\ UNCHANGED <<ms, eig, nrm, bld, srt, mat>>

LeftSweepFails ==
  /\ sgs.pc = "leftSolve" /\ arn.pc = "done" /\ arn.ret = "err"
  /\ sgs' = [sgs EXCEPT !.pc = "done", !.ret = "err"]
  /\ UNCHANGED <<ms, fs, arn, eig, nrm, bld, srt, mat>>

\* Mutant: fs[l] is rebuilt from the eigenvector, before rightNormalize
\* replaces it in ms[l].
LeftSweepSolved_staleEnv ==
  /\ sgs.pc = "leftSolve" /\ arn.pc = "done" /\ arn.ret = "ok"
  /\ LET l == sgs.l
         ms1 == [ms EXCEPT ![l + 1] = Eigvec(ms[l + 1], Len(sgs.log))]
         ms2 == rightNormalize(ms1, l + 1) IN
       /\ ms' = ms2
       /\ fs' = [fs EXCEPT ![l] = ResetEnv,
                           ![l + 1] = rExpression(sgs.h.right, ms1[l + 1])]
       /\ sgs' = [sgs EXCEPT !.pc = "leftSweep", !.l = l - 1]
       /\ arn' = Idle
  /\ UNCHANGED <<eig, nrm, bld, srt, mat>>

\* The eigenvector replaces ms[l], rightNormalize moves the remainder into
\* ms[l-1], fs[l-1] is reset and fs[l] is rebuilt.
LeftSweepSolved ==
  /\ sgs.pc = "leftSolve" /\ arn.pc = "done" /\ arn.ret = "ok"
  /\ LET l == sgs.l
         ms1 == [ms EXCEPT ![l + 1] = Eigvec(ms[l + 1], Len(sgs.log))]
         ms2 == rightNormalize(ms1, l + 1) IN
       /\ ms' = ms2
       /\ fs' = [fs EXCEPT ![l] = ResetEnv,
                           ![l + 1] = rExpression(sgs.h.right, ms2[l + 1])]
       /\ sgs' = [sgs EXCEPT !.pc = "leftSweep", !.l = l - 1]
       /\ arn' = Idle
  /\ UNCHANGED <<eig, nrm, bld, srt, mat>>

\* leftSweep returned nil: the convergence test follows.
LeftSweepReturn ==
  /\ sgs.pc = "leftSweep" /\ sgs.l < 1
  /\ sgs' = [sgs EXCEPT !.pc = "test"]
  /\ UNCHANGED <<ms, fs, arn, eig, nrm, bld, srt, mat>>

\* Mutant: the loop goes on after a test that holds.
ConvergenceTest_noBreak ==
  /\ sgs.pc = "test"
  /\ \E outcome \in {"zeroNorm", "holds", "fails"} :
       IF outcome = "zeroNorm"
       THEN /\ sgs' = [sgs EXCEPT !.pc = "done", !.ret = "err",
                                  !.log = Append(@, <<"N", sgs.i>>)]
            /\ fs' = fs
       ELSE /\ fs' = [fs EXCEPT ![1] = rExpression(fs[2], ms[1])]
            /\ sgs' = [sgs EXCEPT
                 !.ok = @ \/ outcome = "holds",
                 !.pc = "loop",
                 !.i = @ + 1,
                 !.log = Append(@, <<IF outcome = "holds" THEN "T" ELSE "F",
                                     sgs.i>>)]
  /\ UNCHANGED <<ms, arn, eig, nrm, bld, srt, mat>>

\* Mutant: fs[0] is rebuilt for h = fs[0]/psiIP before psiIP is looked at.
ConvergenceTest_dividesFirst ==
  /\ sgs.pc = "test"
  /\ \E outcome \in {"zeroNorm", "holds", "fails"} :
       /\ fs' = [fs EXCEPT ![1] = rExpression(fs[2], ms[1])]
       /\ IF outcome = "zeroNorm"
          THEN sgs' = [sgs EXCEPT !.pc = "done", !.ret = "err",
                                  !.log = Append(@, <<"N", sgs.i>>)]
          ELSE sgs' = [sgs EXCEPT
                 !.ok = (outcome = "holds"),
                 !.pc = IF outcome = "holds" THEN "exit" ELSE "loop",
                 !.i = IF outcome = "holds" THEN @ ELSE @ + 1,
                 !.log = Append(@, <<IF outcome = "holds" THEN "T" ELSE "F",
                                     sgs.i>>)]
  /\ UNCHANGED <<ms, arn, eig, nrm, bld, srt, mat>>

\* The end of an iteration: psiIP = InnerProduct(ms, ms) below epsilon
\* returns an error; otherwise fs[0] is rebuilt from fs[1], h and h2 are
\* computed, and |h2 - h*h| < tol*max(|h2|, 1) sets convergence.ok and
\* leaves the loop.  The floating-point outcomes are open.
ConvergenceTest ==
  /\ sgs.pc = "test"
  /\ \E outcome \in {"zeroNorm", "holds", "fails"} :
       IF outcome = "zeroNorm"
       THEN /\ sgs' = [sgs EXCEPT !.pc = "done", !.ret = "err",
                                  !.log = Append(@, <<"N", sgs.i>>)]
            /\ fs' = fs
       ELSE /\ fs' = [fs EXCEPT ![1] = rExpression(fs[2], ms[1])]
            /\ sgs' = [sgs EXCEPT
                 !.ok = (outcome = "holds"),
                 !.pc = IF outcome = "holds" THEN "exit" ELSE "loop",
                 !.i = IF outcome = "holds" THEN @ ELSE @ + 1,
                 !.log = Append(@, <<IF outcome = "holds" THEN "T" ELSE "F",
                                     sgs.i>>)]
  /\ UNCHANGED <<ms, arn, eig, nrm, bld, srt, mat>>

\* After the loop: if !convergence.ok return an error, else return nil.
SGSReturn ==
  /\ sgs.pc = "exit"
  /\ sgs' = [sgs EXCEPT !.pc = "done",
                        !.ret = IF sgs.ok THEN "nil" ELSE "err"]
  /\ UNCHANGED <<ms, fs, arn, eig, nrm, bld, srt, mat>>

Next ==
  \/ SGSCall
  \/ SGSLoop
  \/ RightSweepSite
  \/ RightSweepFails
  \/ RightSweepSolved
  \/ RightSweepReturn
  \/ LeftSweepSite
  \/ LeftSweepFails
  \/ LeftSweepSolved
  \/ LeftSweepReturn
  \/ ConvergenceTest
  \/ SGSReturn
  \/ ArnoldiIterate
  \/ ArnoldiEigFails
  \/ ArnoldiConverges
  \/ ArnoldiRestarts
  \/ ArnoldiLoopEnds
  \/ ArnoldiReturn

Spec == InitSGS /\ [][Next]_vars

\* ---------------------------------------------------------- Arnoldi.iterate
\* The first call of iterate, in exact arithmetic.  A column of q is a unit
\* vector v/|v| held as its integer direction v; f is held up to a positive
\* factor, which neither the test fn > sinPi4*f0 of a pass nor f/fNorm sees.
MaxIterM == 2
GramSchmidtPasses == 3

Abs(x) == IF x < 0 THEN 0 - x ELSE x

RECURSIVE Gcd(_, _)
Gcd(a, b) == IF b = 0 THEN a ELSE Gcd(b, a % b)

\* The sum, the product and the greatest common divisor of a sequence.
RECURSIVE SumSeq(_)
SumSeq(xs) == IF xs = <<>> THEN 0 ELSE Head(xs) + SumSeq(Tail(xs))
RECURSIVE ProdSeq(_)
ProdSeq(xs) == IF xs = <<>> THEN 1 ELSE Head(xs) * ProdSeq(Tail(xs))
RECURSIVE GcdSeq(_)
GcdSeq(xs) == IF xs = <<>> THEN 0 ELSE Gcd(GcdSeq(Tail(xs)), Abs(Head(xs)))

Dot(u, v) == SumSeq([n \in 1..Len(u) |-> u[n] * v[n]])

\* The direction of v with the common factor of its entries taken out.
Direction(v) ==
  LET g == GcdSeq(v)
  IN IF g = 0 THEN v ELSE [n \in 1..Len(v) |-> v[n] \div g]

\* MatMul(f, a, vi1): a is a sequence of rows.
MatVec(a, v) == [r \in 1..Len(a) |-> Dot(a[r], v)]

\* randVec: components drawn from [-1, 1], then the vector is normalized.
randVec(m) ==
  {v \in [1..m -> {0, 1}] : \E n \in 1..m : v[n] # 0}

\* One pass of gramSchimdt against the columns q: c = q.H @ f, f = f - q @ c,
\* with f scaled by d = the product of the squared lengths |v_j|^2.  f0 and
\* fn are the squares of the norms before and after the pass in one scale,
\* d with the factor g it shares with the entries of the result taken out.
gramSchimdtPass(f, q) ==
  LET d == ProdSeq([n \in 1..Len(q) |-> Dot(q[n], q[n])])
      c == [n \in 1..Len(q) |-> (d \div Dot(q[n], q[n])) * Dot(q[n], f)]
      raw == [r \in 1..Len(f) |->
                d * f[r] - SumSeq([n \in 1..Len(q) |-> c[n] * q[n][r]])]
  IN CHOOSE p \in
       {[f |-> Direction(out), f0 |-> s * s * Dot(f, f), fn |-> Dot(out, out)] :
          <<s, out>> \in
            {<<d \div g, [r \in 1..Len(f) |-> w[r] \div g]>> :
               <<w, g>> \in {<<w, Gcd(d, GcdSeq(w))>> : w \in {raw}}}} : TRUE

\* Solve up to the first call of iterate: q[:, 0] = randVec, start = 1.
InitIterate ==
  /\ ms = <<>> /\ fs = <<>>
  /\ sgs = Idle /\ eig = Idle /\ nrm = Idle /\ bld = Idle
  /\ srt = Idle /\ mat = Idle
  /\ \E m \in 1..MaxIterM :
       \E a \in [1..m -> [1..m -> {0, 1}]], kd \in 1..m, v \in randVec(m) :
         arn = [pc |-> "loop", m |-> m, a |-> a, krylovSpaceDim |-> kd,
                q |-> <<v>>, i |-> 1, f |-> [n \in 1..m |-> 0],
                passes |-> <<>>, fNorm |-> "none", caps |-> {},
                random |-> {}, ret |-> "none"]

\* The head of the loop of iterate: f = a @ q[:, i-1], then the call of
\* gramSchimdt, which zeroes h[:i, i-1].
IterateColumn ==
  /\ arn.pc = "loop" /\ arn.i <= arn.krylovSpaceDim
  /\ arn' = [arn EXCEPT !.pc = "gs", !.f = Direction(MatVec(arn.a, arn.q[arn.i])),
                        !.passes = <<>>, !.fNorm = "none"]
  /\ UNCHANGED <<ms, fs, sgs, eig, nrm, bld, srt, mat>>

\* Mutant: gramSchimdt gives up after two passes.
gramSchimdtLoop_two ==
  /\ arn.pc = "gs" /\ Len(arn.passes) < 2
  /\ LET p == gramSchimdtPass(arn.f, arn.q) IN
     \E exceeds \in BOOLEAN :
       /\ 2 * p.fn > p.f0 => exceeds
       /\ 2 * p.fn < p.f0 \/ p.fn = 0 => ~exceeds
       /\ arn' = [arn EXCEPT
            !.f = p.f,
            !.passes = Append(@, [f0 |-> p.f0, fn |-> p.fn, exceeds |-> exceeds]),
            !.pc = IF exceeds \/ Len(arn.passes) = 1 THEN "set" ELSE "gs",
            !.fNorm = IF exceeds THEN "fn" ELSE IF Len(arn.passes) = 1 THEN "0" ELSE "none",
            !.caps = IF ~exceeds /\ Len(arn.passes) = 1 THEN @ \cup {arn.i} ELSE @]
  /\ UNCHANGED <<ms, fs, sgs, eig, nrm, bld, srt, mat>>

\* for _ = range 3 of gramSchimdt: one pass; fn > sinPi4*f0 returns fn, the
\* third pass without it returns 0.  When a nonzero fn equals sinPi4*f0 the
\* rounding of the norms decides.
gramSchimdtLoop ==
  /\ arn.pc = "gs" /\ Len(arn.passes) < GramSchmidtPasses
  /\ LET p == gramSchimdtPass(arn.f, arn.q)
         last == Len(arn.passes) = GramSchmidtPasses - 1 IN
     \E exceeds \in BOOLEAN :
       /\ 2 * p.fn > p.f0 => exceeds
       /\ 2 * p.fn < p.f0 \/ p.fn = 0 => ~exceeds
       /\ arn' = [arn EXCEPT
            !.f = p.f,
            !.passes = Append(@, [f0 |-> p.f0, fn |-> p.fn, exceeds |-> exceeds]),
            !.pc = IF exceeds \/ last THEN "set" ELSE "gs",
            !.fNorm = IF exceeds THEN "fn" ELSE IF last THEN "0" ELSE "none",
            !.caps = IF ~exceeds /\ last THEN @ \cup {arn.i} ELSE @]
  /\ UNCHANGED <<ms, fs, sgs, eig, nrm, bld, srt, mat>>

\* h[i, i-1] = fNorm; q[:, i] = f/fNorm, or randVec when fNorm < epsilon.
IterateSetColumn ==
  /\ arn.pc = "set"
  /\ IF arn.fNorm = "0"
     THEN \E v \in randVec(arn.m) :
            arn' = [arn EXCEPT !.pc = "loop", !.q = Append(@, v),
                               !.random = @ \cup {arn.i}, !.i = @ + 1]
     ELSE arn' = [arn EXCEPT !.pc = "loop", !.q = Append(@, arn.f), !.i = @ + 1]
  /\ UNCHANGED <<ms, fs, sgs, eig, nrm, bld, srt, mat>>

\* After the loop: q[:, :k], h[:k, :k] and r with f in its last column are
\* returned; iterate has no error result.
IterateReturn ==
  /\ arn.pc = "loop" /\ arn.i > arn.krylovSpaceDim
  /\ arn' = [arn EXCEPT !.pc = "done", !.ret = "q, h, r"]
  /\ UNCHANGED <<ms, fs, sgs, eig, nrm, bld, srt, mat>>

NextIterate ==
  \/ IterateColumn
  \/ gramSchimdtLoop
  \/ IterateSetColumn
  \/ IterateReturn

SpecIterate == InitIterate /\ [][NextIterate]_vars

\* ------------------------------------------- the eigenvectors of Eig.solve
\* solver.a after the QR loop: upper triangular.  The diagonal holds 0 or 1
\* so that every pivot a[j,j] - a[i,i] of aMinusLambda is 0 or divides
\* exactly; a pivot is below epsilon exactly when it is 0.
MaxVecM == 3

\* The value backSubstitution stores in x[i] (rows and columns from 1): b[i]
\* minus the products with the components already solved, then the pivot.
backSubstitutionRow_everyPivot(x, l, b, zeroIndex, i) ==
  LET m == Len(x)
      v == b[i] - SumSeq([n \in 1..(m - i) |-> l[i][i + n] * x[i + n]])
  IN IF l[i][i] = 0 THEN 1
     ELSE IF l[i][i] < 0 THEN 0 - (v \div (0 - l[i][i])) ELSE v \div l[i][i]

backSubstitutionRow(x, l, b, zeroIndex, i) ==
  LET m == Len(x)
      v == b[i] - SumSeq([n \in 1..(m - i) |-> l[i][i + n] * x[i + n]])
  IN IF l[i][i] = 0 THEN (IF i = zeroIndex THEN 1 ELSE 0)
     ELSE IF l[i][i] < 0 THEN 0 - (v \div (0 - l[i][i])) ELSE v \div l[i][i]

InitVectors ==
  /\ ms = <<>> /\ fs = <<>>
  /\ sgs = Idle /\ arn = Idle /\ nrm = Idle /\ bld = Idle
  /\ srt = Idle /\ mat = Idle
  /\ \E m \in 1..MaxVecM :
       \E diag \in [1..m -> {0, 1}],
          upper \in [{rc \in (1..m) \X (1..m) : rc[1] < rc[2]} -> {-1, 0, 1}] :
         LET a == [r \in 1..m |-> [c \in 1..m |->
                     IF r > c THEN 0 ELSE IF r = c THEN diag[r]
                     ELSE upper[<<r, c>>]]] IN
         eig = [pc |-> "vectors", m |-> m, a |-> a, i |-> 1,
                l |-> a, row |-> 0, x |-> [n \in 1..m |-> 0],
                eigvecs |-> <<>>]

\* for i := range m: aMinusLambda[j,j] = a[j,j] - a[i,i], then the call of
\* backSubstitution(vec, aMinusLambda, zeros, i) on a column of zeros.
SolveShift ==
  /\ eig.pc = "vectors" /\ eig.i <= eig.m
  /\ eig' = [eig EXCEPT
       !.pc = "back",
       !.l = [r \in 1..eig.m |-> [c \in 1..eig.m |->
                IF r = c THEN eig.a[r][r] - eig.a[eig.i][eig.i] ELSE eig.l[r][c]]],
       !.x = [n \in 1..eig.m |-> 0],
       !.row = eig.m]
  /\ UNCHANGED <<ms, fs, sgs, arn, nrm, bld, srt, mat>>

\* for i := m - 1; i >= 0; i-- of backSubstitution: one row.
BackSubstitutionStep ==
  /\ eig.pc = "back" /\ eig.row >= 1
  /\ LET v == backSubstitutionRow(eig.x, eig.l, [n \in 1..eig.m |-> 0],
                                  eig.i, eig.row) IN
       eig' = [eig EXCEPT !.x = [n \in 1..eig.m |->
                                   IF n = eig.row THEN v ELSE eig.x[n]],
                          !.row = @ - 1]
  /\ UNCHANGED <<ms, fs, sgs, arn, nrm, bld, srt, mat>>

\* backSubstitution returned: vec is column i of eigvecs.
BackSubstitutionReturn ==
  /\ eig.pc = "back" /\ eig.row < 1
  /\ eig' = [eig EXCEPT !.pc = "vectors", !.eigvecs = Append(@, eig.x),
                        !.i = @ + 1]
  /\ UNCHANGED <<ms, fs, sgs, arn, nrm, bld, srt, mat>>

\* Every column is computed: the transform to the original space follows.
SolveVectorsDone ==
  /\ eig.pc = "vectors" /\ eig.i > eig.m
  /\ eig' = [eig EXCEPT !.pc = "done"]
  /\ UNCHANGED <<ms, fs, sgs, arn, nrm, bld, srt, mat>>

NextVectors ==
  \/ SolveShift
  \/ BackSubstitutionStep
  \/ BackSubstitutionReturn
  \/ SolveVectorsDone

SpecVectors == InitVectors /\ [][NextVectors]_vars

\* ------------------------------------------------------- sortEigen and svd
MaxSortN == 3
MaxVal == 1
\* The real parts of the values that are sorted.
SortValues == (0 - MaxVal)..MaxVal

\* cmp.Compare on the real parts.
cmpCompare(a, b) == IF a < b THEN -1 ELSE IF a > b THEN 1 ELSE 0

\* The fn that Eig.Solve ("asc") and svd ("desc") hand to sortEigen.
SortFn(fn, a, b) ==
  IF fn = "asc" THEN cmpCompare(a.re, b.re) ELSE 0 - cmpCompare(a.re, b.re)

\* valRightLeft.Less, i and j 0-based.
Less(r, i, j) == SortFn(r.fn, r.val[i + 1], r.val[j + 1]) < 0

\* Swapping two columns through vrl.buf.
SwapColumns(vec, i, j) ==
  LET buf == vec[i + 1]
      vec1 == [vec EXCEPT ![i + 1] = vec[j + 1]]
  IN [vec1 EXCEPT ![j + 1] = buf]

\* Mutant: only the values are swapped.
Swap_valuesOnly(r, i, j) ==
  [r EXCEPT !.val = SwapColumns(r.val, i, j)]

\* valRightLeft.Swap: the values, then the columns of right and of left, a
\* nil matrix skipped.
Swap(r, i, j) ==
  [r EXCEPT !.val = SwapColumns(r.val, i, j),
            !.right = IF r.hasRight THEN SwapColumns(r.right, i, j) ELSE @,
            !.left = IF r.hasLeft THEN SwapColumns(r.left, i, j) ELSE @]

\* Mutant: every column of u is negated when some value is negative.
MakeNonNegative_allColumns(r) ==
  LET some == \E i \in 1..r.n : r.s[i].re < 0 IN
  [r EXCEPT !.s = [i \in 1..r.n |-> IF r.s[i].re < 0
                                    THEN [r.s[i] EXCEPT !.re = 0 - @] ELSE r.s[i]],
            !.right = [i \in 1..Len(r.right) |->
                         IF some THEN [r.right[i] EXCEPT !.sign = 0 - @]
                         ELSE r.right[i]]]

\* svd, "Make s non-negative": for each i with real(s[i,i]) < 0 the value and
\* the column i of u are negated.
MakeNonNegative(r) ==
  [r EXCEPT !.s = [i \in 1..r.n |-> IF r.s[i].re < 0
                                    THEN [r.s[i] EXCEPT !.re = 0 - @] ELSE r.s[i]],
            !.right = [i \in 1..Len(r.right) |->
                         IF i <= r.n /\ r.s[i].re < 0
                         THEN [r.right[i] EXCEPT !.sign = 0 - @]
                         ELSE r.right[i]]]

\* The columns of an identity-ordered matrix: column i belongs to value i.
Columns(m) == [i \in 1..m |-> [id |-> i, sign |-> 1]]

\* Either Eig.Solve after solve returned nil (eigvals[i] and column i of
\* eigvecs computed together, left = nil), or svd of an m x n matrix, m >= n,
\* after its loop (s diagonal, u of m columns, v of n columns); SVD hands a
\* matrix with m < n to svd as s.H() with u and v exchanged (wide).
InitSort ==
  /\ ms = <<>> /\ fs = <<>>
  /\ sgs = Idle /\ arn = Idle /\ eig = Idle /\ nrm = Idle /\ bld = Idle
  /\ mat = Idle
  /\ \E n \in 1..MaxSortN : \E re \in [1..n -> SortValues] :
       LET in == [i \in 1..n |-> [re |-> re[i], id |-> i]] IN
       \/ srt = [pc |-> "sort", caller |-> "Eig.Solve", fn |-> "asc", n |-> n,
                 wide |-> FALSE, in |-> in, s |-> in, val |-> in,
                 right |-> Columns(n), hasRight |-> TRUE,
                 left |-> <<>>, hasLeft |-> FALSE, i |-> 1, j |-> 1]
       \/ \E extra \in 0..1, wide \in BOOLEAN :
            srt = [pc |-> "negate", caller |-> "svd", fn |-> "desc", n |-> n,
                   wide |-> wide, in |-> in, s |-> in, val |-> <<>>,
                   right |-> Columns(n + extra), hasRight |-> TRUE,
                   left |-> Columns(n), hasLeft |-> TRUE, i |-> 1, j |-> 1]

\* svd lines 768-782: the diagonal is made non-negative, copied to sdiag and
\* sortEigen(sdiag, u, v, descending) is called.
SvdMakeNonNegative ==
  /\ srt.pc = "negate"
  /\ LET r == MakeNonNegative(srt) IN
       srt' = [r EXCEPT !.pc = "sort", !.val = r.s, !.i = 1, !.j = 1]
  /\ UNCHANGED <<ms, fs, sgs, arn, eig, nrm, bld, mat>>

\* sort.Sort on fewer than 12 elements is an insertion sort: while j > 0 and
\* Less(j, j-1), Swap(j, j-1) and j--.
SortSwap ==
  /\ srt.pc = "sort" /\ srt.i < srt.n
  /\ srt.j > 0 /\ Less(srt, srt.j, srt.j - 1)
  /\ srt' = [Swap(srt, srt.j, srt.j - 1) EXCEPT !.j = srt.j - 1]
  /\ UNCHANGED <<ms, fs, sgs, arn, eig, nrm, bld, mat>>

\* The element i is in place: i++.
SortAdvance ==
  /\ srt.pc = "sort" /\ srt.i < srt.n
  /\ ~(srt.j > 0 /\ Less(srt, srt.j, srt.j - 1))
  /\ srt' = [srt EXCEPT !.i = srt.i + 1, !.j = srt.i + 1]
  /\ UNCHANGED <<ms, fs, sgs, arn, eig, nrm, bld, mat>>

\* sortEigen returns; svd writes sdiag back to the diagonal of s.
SortReturn ==
  /\ srt.pc = "sort" /\ srt.i >= srt.n
  /\ srt' = [srt EXCEPT !.pc = "done", !.s = srt.val]
  /\ UNCHANGED <<ms, fs, sgs, arn, eig, nrm, bld, mat>>

NextSort ==
  \/ SvdMakeNonNegative
  \/ SortSwap
  \/ SortAdvance
  \/ SortReturn

SpecSort == InitSort /\ [][NextSort]_vars

\* ------------------------------------------------- the shift of svd's sweep
\* A block b22 of the bidiagonal matrix with more than two rows: d is its
\* diagonal, e its superdiagonal (no zero in it), in exact arithmetic.  A
\* float is a fraction [num, den]; den = 0 stands for +Inf (num > 0) or NaN
\* (num = 0), and every comparison with NaN is false.
MaxSvdN == 3
\* tol = max(10, min(100, epsilon^(-1/8))) * epsilon = 10 * epsilon, and
\* max(epsilon, 0.01 * tol) = epsilon.
TolOverEpsilon == 10
SvdSweepCap == 32

Frac(num, den) ==
  LET g == Gcd(Abs(num), Abs(den))
  IN IF g = 0 THEN [num |-> 0, den |-> 0]
     ELSE [num |-> num \div g, den |-> den \div g]
FracLess(x, y) ==
  /\ ~(x.num = 0 /\ x.den = 0) /\ ~(y.num = 0 /\ y.den = 0)
  /\ x.num * y.den < y.num * x.den
FracMin(x, y) == IF FracLess(y, x) THEN y ELSE x
FracDiv(x, y) == Frac(x.num * y.den, x.den * y.num)

\* mu after column j (from 1) of calcSMinMax, and the minimum so far.
RECURSIVE calcMu(_, _, _)
calcMu(d, e, j) ==
  IF j = 1 THEN Frac(Abs(d[1]), 1)
  ELSE LET mu == calcMu(d, e, j - 1)
       IN Frac(Abs(d[j]) * mu.num, mu.num + Abs(e[j - 1]) * mu.den)
RECURSIVE calcSMin(_, _, _)
calcSMin(d, e, j) ==
  IF j = 1 THEN calcMu(d, e, 1)
  ELSE FracMin(calcSMin(d, e, j - 1), calcMu(d, e, j))

\* calcSMinMax returns smin, smax: smax is the largest |a[j,j]| (a[j,j-1] is
\* zero in the upper bidiagonal matrix), smin the smallest mu.
calcSMinMax(d, e) ==
  LET RECURSIVE largest(_)
      largest(j) == IF j = 1 THEN Abs(d[1])
                    ELSE Max(largest(j - 1), Max(Abs(d[j]), 0))
  IN <<calcSMin(d, e, Len(d)), Frac(largest(Len(d)), 1)>>

\* float32(n)*tol*(smin/smax) < max(epsilon, 0.01*tol).
UseZeroShift(n, smin, smax) ==
  FracLess(FracDiv(Frac(n * TolOverEpsilon * smin.num, smin.den), smax),
           Frac(1, 1))

InitShift ==
  /\ ms = <<>> /\ fs = <<>>
  /\ sgs = Idle /\ arn = Idle /\ eig = Idle /\ nrm = Idle /\ bld = Idle
  /\ mat = Idle
  /\ \E n \in 3..MaxSvdN : \E bm \in 3..n :
       \E d \in [1..bm -> {0, 1, 8}], e \in [1..(bm - 1) -> {1, 8}] :
         srt = [pc |-> "block", n |-> n, d |-> d, e |-> e,
                smax |-> Frac(0, 1), smin |-> Frac(0, 1),
                shift |-> "none", sweeps |-> 0, converged |-> FALSE,
                ret |-> "none"]

\* Mutant: the results of calcSMinMax are taken in the order it returns them.
SvdBlock_inOrder ==
  /\ srt.pc = "block"
  /\ LET r == calcSMinMax(srt.d, srt.e) IN
       srt' = [srt EXCEPT !.pc = "sweep", !.smin = r[1], !.smax = r[2]]
  /\ UNCHANGED <<ms, fs, sgs, arn, eig, nrm, bld, mat>>

\* A block with more than two rows is selected:
\* smax, smin := calcSMinMax(b22).
SvdBlock ==
  /\ srt.pc = "block"
  /\ LET r == calcSMinMax(srt.d, srt.e) IN
       srt' = [srt EXCEPT !.pc = "sweep", !.smax = r[1], !.smin = r[2]]
  /\ UNCHANGED <<ms, fs, sgs, arn, eig, nrm, bld, mat>>

\* One sweep: the shift is Wilkinson's or zero, the chase rotates the block
\* and findBidiagonal(b22) tells whether it has deflated.  The entries the
\* chase leaves are open; smin and smax are not computed again.
SvdSweep ==
  /\ srt.pc = "sweep" /\ srt.sweeps < SvdSweepCap
  /\ \E converged \in BOOLEAN :
       srt' = [srt EXCEPT
                 !.shift = IF UseZeroShift(srt.n, srt.smin, srt.smax)
                           THEN "zero" ELSE "wilkinson",
                 !.sweeps = @ + 1, !.converged = converged,
                 !.pc = IF converged THEN "done" ELSE "sweep",
                 !.ret = IF converged THEN "deflated" ELSE "none"]
  /\ UNCHANGED <<ms, fs, sgs, arn, eig, nrm, bld, mat>>

\* max(n-p-q, 32) sweeps without a deflation: svd returns "not converged".
SvdNotConverged ==
  /\ srt.pc = "sweep" /\ srt.sweeps >= SvdSweepCap
  /\ srt' = [srt EXCEPT !.pc = "done", !.ret = "err"]
  /\ UNCHANGED <<ms, fs, sgs, arn, eig, nrm, bld, mat>>

NextShift ==
  \/ SvdBlock
  \/ SvdSweep
  \/ SvdNotConverged

SpecShift == InitShift /\ [][NextShift]_vars

\* C11: Eig.Solve returns the eigenvalues in non-decreasing order of real
\* part, a permutation of the computed ones, and column i of the eigenvector
\* matrix is the vector computed for the eigenvalue now at position i.
C11_EigSorted ==
  srt.pc # "idle" /\ srt.caller = "Eig.Solve" =>
    /\ \A i \in 1..srt.n : /\ srt.right[i].id = srt.val[i].id
                           /\ srt.val[i] = srt.in[srt.val[i].id]
    /\ {srt.val[i].id : i \in 1..srt.n} = 1..srt.n
    /\ srt.pc = "done" =>
         /\ \A i \in 1..(srt.n - 1) : srt.s[i].re <= srt.s[i + 1].re
         /\ srt.s = srt.val

\* Three eigenvalues computed in decreasing order came back reversed.
C11_Witness ==
  /\ srt.pc = "done" /\ srt.caller = "Eig.Solve" /\ srt.n = 3
  /\ srt.in[1].re > srt.in[2].re /\ srt.in[2].re > srt.in[3].re
  /\ srt.right[1].id = 3 /\ srt.right[3].id = 1

MaxNNZ == 2
\* The Pauli matrices and identity = COOIdentity(2) are 2 x 2.
PauliDim == 2
\* The values of the entries and the scalars; complex64 values are modelled
\* by integers, on which sums and products are exact.
EntryValues == {-1, 1}
Scalars == {-1, 0, 1}

VRowCol(v, row, col) == [v |-> v, row |-> row, col |-> col]

\* rowMajor: cmp.Compare on the rows, then on the columns.
rowMajor(a, b) ==
  IF cmpCompare(a.row, b.row) # 0 THEN cmpCompare(a.row, b.row)
  ELSE cmpCompare(a.col, b.col)

\* slices.SortFunc(data, rowMajor): the elements in the order of rowMajor,
\* equal ones in the order they had (an insertion sort on short slices; on
\* longer ones no two entries share a position).
SortFunc(data) ==
  LET rank == [k \in 1..Len(data) |->
                 Cardinality({j \in 1..Len(data) :
                    \/ rowMajor(data[j], data[k]) < 0
                    \/ rowMajor(data[j], data[k]) = 0 /\ j < k})]
  IN [n \in 1..Len(data) |-> data[CHOOSE k \in 1..Len(data) : rank[k] = n - 1]]

\* slices.DeleteFunc(a.Data, v.v == 0).
DeleteZeros(data) == SelectSeq(data, LAMBDA e : e.v # 0)

\* The entries of a set, no two at the same position, in one of the orders
\* a map iteration can take.
SeqOfSet(S) ==
  LET rank == [e \in S |-> Cardinality({f \in S : rowMajor(f, e) < 0})]
  IN [n \in 1..Cardinality(S) |-> CHOOSE e \in S : rank[e] = n - 1]

\* M(dense): the non-zero entries of a dense matrix, row by row; dense is a
\* function on (0..rows-1) x (0..cols-1).
M(rows, cols, dense) ==
  [rows |-> rows, cols |-> cols,
   Data |-> SortFunc(SeqOfSet({VRowCol(dense[yx], yx[1], yx[2]) :
              yx \in {p \in (0..(rows - 1)) \X (0..(cols - 1)) : dense[p] # 0}}))]

\* COO.Dense: later entries overwrite earlier ones; the value at (i, j).
DenseAt(m, i, j) ==
  LET at == {n \in 1..Len(m.Data) : m.Data[n].row = i /\ m.Data[n].col = j}
  IN IF at = {} THEN 0
     ELSE m.Data[CHOOSE n \in at : \A n2 \in at : n2 <= n].v

\* b.m after the first loop of Add: the map from position to value.
MapOf(data) ==
  [yx \in {<<data[n].row, data[n].col>> : n \in 1..Len(data)} |->
     DenseAt([Data |-> data], yx[1], yx[2])]

\* The position of b that Add pairs with an entry of a; the shapes that
\* fit none of the cases panic.
AddPanics(a, b) ==
  /\ a.Data # <<>>
  /\ ~(b.rows = 1 /\ b.cols = 1)
  /\ ~(b.rows = a.rows /\ b.cols = 1)
  /\ ~(b.rows = a.rows /\ b.cols = a.cols)
ByX(a, b, av) ==
  IF b.rows = 1 /\ b.cols = 1 THEN <<0, 0>>
  ELSE IF b.rows = a.rows /\ b.cols = 1 THEN <<av.row, 0>>
  ELSE <<av.row, av.col>>

\* The loop of COO.Add over a.Data: a.Data[i].v = av.v + c*b.m[byx] and byx
\* deleted from b.m, so that a position of b is added to the first entry
\* that is paired with it only.
AddLoop(a, b, c) ==
  LET bm == MapOf(b.Data)
      byx == [i \in 1..Len(a.Data) |-> ByX(a, b, a.Data[i])]
      bv(i) == IF byx[i] \in DOMAIN bm /\ \A j \in 1..(i - 1) : byx[j] # byx[i]
               THEN bm[byx[i]] ELSE 0
  IN [Data |-> [i \in 1..Len(a.Data) |-> [a.Data[i] EXCEPT !.v = a.Data[i].v + c * bv(i)]],
      m |-> [yx \in DOMAIN bm \ {byx[i] : i \in 1..Len(a.Data)} |-> bm[yx]]]

\* COO.Add: the loop over a.Data, the zero entries of a.Data deleted, then
\* c*bv appended for what is left in b.m, then the sort.
COOAdd(a, c, b) ==
  LET r == AddLoop(a, b, c)
      kept == DeleteZeros(r.Data)
      rest == SeqOfSet({VRowCol(c * r.m[yx], yx[1], yx[2]) : yx \in DOMAIN r.m})
  IN [a EXCEPT !.Data = SortFunc(kept \o rest)]

\* The entries that Kron appends for a.Data[i], i from the last to the first.
RECURSIVE KronAppended(_, _, _)
KronAppended(a, b, i) ==
  IF i < 1 THEN <<>>
  ELSE [n \in 1..Len(b.Data) |->
          VRowCol(a.Data[i].v * b.Data[n].v,
                  a.Data[i].row * b.rows + b.Data[n].row,
                  a.Data[i].col * b.cols + b.Data[n].col)]
       \o KronAppended(a, b, i - 1)

\* Mutant: the block of an entry is placed by the shape of a.
COOKron_wrongStride(a, b) ==
  LET old == [n \in 1..Len(a.Data) |-> [a.Data[n] EXCEPT !.v = 0]]
      new == [n \in 1..Len(KronAppended(a, b, Len(a.Data))) |->
                LET e == KronAppended(a, b, Len(a.Data))[n] IN
                [e EXCEPT !.row = ((e.row \div b.rows) * a.rows) + (e.row % b.rows)]]
  IN [rows |-> a.rows * b.rows, cols |-> a.cols * b.cols,
      Data |-> SortFunc(DeleteZeros(old \o new))]

\* COO.Kron: every old entry is zeroed and its products with the entries of
\* b appended; the zero entries are deleted and the rest sorted.
COOKron(a, b) ==
  LET old == [n \in 1..Len(a.Data) |-> [a.Data[n] EXCEPT !.v = 0]]
  IN [rows |-> a.rows * b.rows, cols |-> a.cols * b.cols,
      Data |-> SortFunc(DeleteZeros(old \o KronAppended(a, b, Len(a.Data))))]

\* COO.Equal: the shapes and the lists of stored entries.
Equal(a, b) ==
  /\ a.rows = b.rows /\ a.cols = b.cols
  /\ Len(a.Data) = Len(b.Data)
  /\ \A n \in 1..Len(a.Data) : a.Data[n] = b.Data[n]

\* A DiskMatrix: the table m with primary key (i, j), a function from the
\* stored keys to their values.
\* setItem: INSERT OR REPLACE, or DELETE when v == 0.
setItem(tbl, i, j, v) ==
  IF v = 0 THEN [k \in DOMAIN tbl \ {<<i, j>>} |-> tbl[k]]
  ELSE [k \in DOMAIN tbl \cup {<<i, j>>} |-> IF k = <<i, j>> THEN v ELSE tbl[k]]

\* DiskMatrix.At: 0 for sql.ErrNoRows.
DiskAt(tbl, i, j) == IF <<i, j>> \in DOMAIN tbl THEN tbl[<<i, j>>] ELSE 0

\* DiskMatrix.COO: SELECT i, j, re, im ORDER BY i, j.
DiskCOO(d) ==
  [rows |-> d.rows, cols |-> d.cols,
   Data |-> SortFunc(SeqOfSet({VRowCol(d.tbl[k], k[1], k[2]) : k \in DOMAIN d.tbl}))]

\* DiskM(path, dense): setItem for every element.
DiskM(rows, cols, dense) ==
  [rows |-> rows, cols |-> cols,
   tbl |-> [k \in {p \in (0..(rows - 1)) \X (0..(cols - 1)) : dense[p] # 0} |->
              dense[k]]]

\* DiskMatrix.add: for every row of b, setItem(a, i, j, a.At(i, j) + c*bv).
RECURSIVE DiskAddLoop(_, _, _, _)
DiskAddLoop(tbl, c, bdata, n) ==
  IF n > Len(bdata) THEN tbl
  ELSE LET e == bdata[n] IN
       DiskAddLoop(setItem(tbl, e.row, e.col, DiskAt(tbl, e.row, e.col) + c * e.v),
                   c, bdata, n + 1)
DiskAdd(a, c, b) == [a EXCEPT !.tbl = DiskAddLoop(a.tbl, c, DiskCOO(b).Data, 1)]

\* Text of the csv fields: a sequence of characters; "" is the empty field.
DigitChars == <<"0", "1", "2", "3", "4", "5", "6", "7", "8", "9">>

RECURSIVE Digits(_)
Digits(n) == IF n < 10 THEN <<DigitChars[n + 1]>>
             ELSE Digits(n \div 10) \o <<DigitChars[(n % 10) + 1]>>

\* strconv.Itoa
Itoa(n) == IF n < 0 THEN <<"-">> \o Digits(-n) ELSE Digits(n)

\* FormatNumpy of a value without imaginary part whose shortest decimal has
\* no fraction and no exponent: strconv.FormatFloat(v, 'g', -1, 32).
FormatNumpy(v) == IF v < 0 THEN <<"-">> \o Digits(-v) ELSE Digits(v)

RECURSIVE ParseDigits(_, _)
ParseDigits(t, acc) ==
  IF t = <<>> THEN acc
  ELSE ParseDigits(Tail(t), (acc * 10) + (CHOOSE d \in 0..9 : DigitChars[d + 1] = Head(t)))

\* strconv.Atoi and strconv.ParseComplex of such a text.
Atoi(t) == IF Head(t) = "-" THEN -ParseDigits(Tail(t), 0) ELSE ParseDigits(t, 0)
ParseComplex(t) == IF Head(t) = "-" THEN -ParseDigits(Tail(t), 0) ELSE ParseDigits(t, 0)

\* The records COO.WriteCOO and DiskMatrix.WriteCOO write: all three fields
\* of every entry.
WriteCOO(data) ==
  [n \in 1..Len(data) |->
     <<FormatNumpy(data[n].v), Itoa(data[n].row), Itoa(data[n].col)>>]

\* The writer of TransverseFieldIsingExplicit starts with prev = {NaN, -1, -1},
\* which differs from every entry in value and in row: prev is <<>> before
\* the first record and <<v>> after v was written.
WriterPrev == <<>>

\* The record TransverseFieldIsingExplicit writes for v after prev.
WriteCompressedRecord(v, prev) ==
  <<IF prev = <<>> \/ v.v # prev[1].v THEN FormatNumpy(v.v) ELSE <<>>,
    IF prev = <<>> \/ v.row # prev[1].row THEN Itoa(v.row) ELSE <<>>,
    Itoa(v.col)>>

\* The zero value of COOReader.prev.
ReaderPrev == VRowCol(0, 0, 0)

\* Mutant: an empty field reads as the zero value.
COOReaderRead_noPrev(record, prev) ==
  VRowCol(IF record[1] = <<>> THEN 0 ELSE ParseComplex(record[1]),
          IF record[2] = <<>> THEN 0 ELSE Atoi(record[2]),
          Atoi(record[3]))

\* COOReader.Read of one record.
COOReaderRead(record, prev) ==
  VRowCol(IF record[1] = <<>> THEN prev.v ELSE ParseComplex(record[1]),
          IF record[2] = <<>> THEN prev.row ELSE Atoi(record[2]),
          Atoi(record[3]))

\* DiskMatrix.kron: the table is written as csv, emptied, and for every
\* record read back the products with the entries of b are set.
RECURSIVE DiskKronInner(_, _, _, _)
DiskKronInner(tbl, av, b, n) ==
  IF n > Len(b.Data) THEN tbl
  ELSE LET bv == b.Data[n] IN
       DiskKronInner(setItem(tbl, (av.row * b.rows) + bv.row,
                             (av.col * b.cols) + bv.col, av.v * bv.v),
                     av, b, n + 1)
RECURSIVE DiskKronLoop(_, _, _, _, _)
DiskKronLoop(tbl, records, prev, b, n) ==
  IF n > Len(records) THEN tbl
  ELSE LET av == COOReaderRead(records[n], prev) IN
       DiskKronLoop(DiskKronInner(tbl, av, b, 1), records, av, b, n + 1)
DiskKron(a, b) ==
  [rows |-> a.rows * b.rows, cols |-> a.cols * b.cols,
   tbl |-> DiskKronLoop([k \in {} |-> 0], WriteCOO(DiskCOO(a).Data), ReaderPrev, b, 1)]

\* The entry expected at place n of the log of a chain of len sites: the
\* sites 0..len-2 of a right sweep, the sites len-1..1 of a left sweep, then
\* the test of the iteration.
C1_InPlace(entry, n, len) ==
  LET per == 2 * (len - 1) + 1
      j == (n - 1) \div per
      r == (n - 1) % per
  IN IF r < len - 1 THEN entry = <<"R", r>>
     ELSE IF r < 2 * (len - 1) THEN entry = <<"L", 2 * (len - 1) - r>>
     ELSE entry[1] \in {"T", "F", "N"} /\ entry[2] = j

\* C1: SearchGroundState runs at most maxIterations iterations (32 without
\* options), each a complete right sweep then a complete left sweep then the
\* convergence test; it returns nil at the first iteration whose test holds
\* and an error when no test holds, maxIterations = 0 included.
C1_SearchGroundStateLoop ==
  sgs.pc # "idle" =>
    LET log == sgs.log
        per == 2 * (Len(ms) - 1) + 1
        held == {n \in 1..Len(log) : log[n][1] = "T"}
    IN /\ \A n \in 1..Len(log) : C1_InPlace(log[n], n, Len(ms))
       /\ Len(log) <= sgs.maxIterations * per
       /\ \A n \in 1..(Len(log) - 1) : log[n][1] \notin {"T", "N"}
       /\ held # {} => /\ sgs.pc \in {"exit", "done"}
                       /\ sgs.pc = "done" => sgs.ret = "nil"
       /\ sgs.pc = "done" /\ held = {} => sgs.ret = "err"
       /\ sgs.pc = "done" /\ sgs.ret = "nil" =>
            /\ log[Len(log)] = <<"T", sgs.i>>
            /\ Len(log) = (sgs.i + 1) * per
       /\ sgs.pc = "test" => Len(log) = (sgs.i + 1) * per - 1

\* SearchGroundState returned nil from its second iteration on three sites.
C1_Witness ==
  /\ sgs.pc = "done" /\ sgs.ret = "nil"
  /\ sgs.i = 1 /\ Len(ms) = 3
  /\ sgs.log[5] = <<"F", 0>>

\* C2: Arnoldi.Solve runs at most maxIterations iterations (64 by default);
\* converged holds exactly when numConverged is the number of wanted pairs;
\* it returns the eigenpairs at the first iteration all k wanted pairs pass,
\* with no restart after that iteration; when no iteration passes it returns
\* an error with nil eigenvalues and nil eigenvectors.
C2_ArnoldiSolveLoop ==
  arn.pc # "idle" =>
    /\ arn.iterates <= Max(arn.maxIterations, 0)
    /\ arn.pass # <<>> =>
         /\ arn.cvg.converged <=> \A i \in 1..arn.k : arn.pass[i]
         /\ arn.cvg.converged <=> arn.cvg.numConverged = arn.k
    /\ arn.allPassed <= 1
    /\ arn.allPassed = 1 =>
         /\ arn.pc \in {"exit", "done"}
         /\ arn.restarts = arn.iterates - 1
         /\ arn.out = "eigenpairs"
         /\ arn.pc = "done" => arn.ret = "ok"
    /\ arn.pc = "done" /\ arn.ret = "ok" => arn.allPassed = 1
    /\ arn.pc = "done" /\ arn.allPassed = 0 =>
         /\ arn.ret = "err" /\ arn.out = "nil"
         /\ ~arn.eigFailed => /\ arn.iterates = Max(arn.maxIterations, 0)
                              /\ arn.restarts = arn.iterates

\* Two wanted pairs passed together in the second iteration, after a restart.
C2_Witness ==
  /\ arn.pc = "done" /\ arn.ret = "ok"
  /\ arn.k = 2 /\ arn.iterates = 2 /\ arn.restarts = 1

\* C3: a selected block gets at most 32 sweeps; the inner loop is left at the
\* first sweep after which the block has deflated; after 32 sweeps without a
\* deflation solve fails and Solve returns nil without collecting or sorting.
C3_EigSweepCap ==
  eig.pc # "idle" =>
    LET block == (eig.p + 1)..(eig.m - eig.q - 1) IN
    /\ eig.sweeps <= 32
    /\ eig.pc = "inner" =>
         /\ block # {}
         /\ \A i \in block : eig.sub[i] = "b"
         /\ ~eig.converged
    /\ eig.pc = "outer" /\ eig.sweeps > 0 =>
         /\ eig.converged
         /\ \E i \in block : eig.sub[i] = "0"
    /\ eig.ret = "err" <=>
         /\ eig.pc = "done" /\ eig.sweeps = 32
         /\ \A i \in block : eig.sub[i] = "b"
    /\ eig.ret = "err" =>
         ~eig.collected /\ ~eig.sorted /\ eig.out = "nil"
    /\ eig.ret = "ok" => eig.collected /\ eig.sorted

\* The second block of a 3 x 3 matrix took 32 sweeps without deflating.
C3_Witness ==
  /\ eig.pc = "done" /\ eig.ret = "err"
  /\ eig.m = 3 /\ eig.blocks = 2 /\ eig.sweeps = 32

\* What the callers do on a failure of the solver they called.
C4_FailureStep ==
  /\ arn.pc = "eig" /\ arn'.pc # "idle" /\ arn'.eigFailed =>
       /\ arn'.pc = "done" /\ arn'.ret = "err" /\ arn'.out = "nil"
       /\ arn'.restarts = arn.restarts /\ arn'.iterates = arn.iterates
       /\ UNCHANGED <<ms, fs, sgs>>
  /\ sgs.pc \in {"rightSolve", "leftSolve"} /\ arn.pc = "done" /\ arn.ret = "err" =>
       /\ sgs'.pc = "done" /\ sgs'.ret = "err"
       /\ sgs'.log = sgs.log /\ sgs'.i = sgs.i
       /\ ms' = ms
  /\ sgs.pc = "done" => UNCHANGED vars
  /\ arn.pc = "done" /\ arn.ret = "err" => arn' = arn

\* What holds once a solver has failed.
C4_FailureState ==
  /\ arn.pc # "idle" /\ arn.eigFailed =>
       /\ arn.pc = "done" /\ arn.ret = "err"
       /\ arn.restarts = arn.iterates - 1 /\ arn.it = arn.iterates - 1
  /\ sgs.pc # "idle" /\ arn.pc = "done" /\ arn.ret = "err" /\ sgs.pc = "done" =>
       /\ sgs.ret = "err"
       /\ sgs.log # <<>>
       /\ sgs.log[Len(sgs.log)] \in {<<"R", sgs.l>>, <<"L", sgs.l>>}

\* C4: a failure of Eig.Solve makes Arnoldi.Solve return an error in the same
\* iteration, without a restart or another iteration; a failure of Arnoldi at
\* a site of a sweep makes the sweep and SearchGroundState return an error at
\* once, with no further site visited, no further iteration started and the
\* sites left as they are.
C4_FailureSurfaces == [](C4_FailureState) /\ [][C4_FailureStep]_vars

\* Eig.Solve failed in a later iteration of Arnoldi at site 1 of the left
\* sweep of the second iteration, and SearchGroundState returned the error.
C4_Witness ==
  /\ sgs.pc = "done" /\ sgs.ret = "err"
  /\ arn.pc = "done" /\ arn.eigFailed /\ arn.iterates >= 2
  /\ sgs.i = 1 /\ Len(ms) = 3
  /\ sgs.log[Len(sgs.log)] = <<"L", 1>>

\* C13: after every right and left sweep pair the norm <psi|psi> is looked at
\* first: below epsilon, SearchGroundState returns an error with fs[0] not
\* rebuilt (h = fs[0]/psiIP not formed) and the criterion not evaluated.
C13_NormCheckedFirst ==
  sgs.pc # "idle" =>
    LET log == sgs.log
        per == 2 * (Len(ms) - 1) + 1 IN
    /\ \A n \in 1..Len(log) :
         /\ n % per = 0 <=> log[n][1] \in {"N", "T", "F"}
         /\ log[n][1] = "N" =>
              /\ n = Len(log)
              /\ sgs.pc = "done" /\ sgs.ret = "err" /\ ~sgs.ok
              /\ fs[1].kind = "reset"
         /\ log[n][1] \in {"T", "F"} /\ n = Len(log) /\ sgs.pc \in {"exit", "loop"} =>
              fs[1].kind = "R"
    /\ sgs.pc = "test" => fs[1].kind = "reset"

\* The norm fell below epsilon after the sweeps of the second iteration.
C13_Witness ==
  /\ sgs.pc = "done" /\ sgs.ret = "err" /\ Len(ms) = 3
  /\ Len(sgs.log) = 10 /\ sgs.log[10] = <<"N", 1>>

\* C14: after a non-converged iteration start = min(k + numConverged,
\* k + floor((krylovSpaceDim - k)/2)), the shifts are the Ritz values at the
\* positions start..krylovSpaceDim-1, one bulge chase each, and the next
\* expansion runs over the columns from start on.
C14_RestartWindow ==
  arn.pc # "idle" =>
    LET kd == arn.krylovSpaceDim
        half == arn.k + (kd - arn.k) \div 2
        grown == arn.k + arn.cvg.numConverged
        start == IF grown < half THEN grown ELSE half IN
    /\ arn.restarts = 0 => arn.start = 1 /\ arn.shifts = <<>>
    /\ arn.restarts > 0 /\ ~arn.cvg.converged =>
         /\ arn.start = start
         /\ Len(arn.shifts) = kd - start
         /\ {arn.shifts[i] : i \in 1..Len(arn.shifts)} = {p \in 0..(kd - 1) : p >= start}
         /\ \A i \in 1..(Len(arn.shifts) - 1) : arn.shifts[i] < arn.shifts[i + 1]
         /\ arn.pc = "eig" => arn.expanded = {c \in 1..kd : c >= start}
    /\ arn.pc = "eig" /\ arn.restarts = 0 => arn.expanded = 1..kd

\* One of two wanted pairs had converged in a Krylov space of dimension 3:
\* the cap k + (3 - 2)/2 = 2 is the start, below k + numConverged = 3.
C14_Witness ==
  /\ arn.pc = "eig" /\ arn.restarts = 1
  /\ arn.k = 2 /\ arn.krylovSpaceDim = 3 /\ arn.cvg.numConverged = 1
  /\ arn.start = 2 /\ arn.shifts = <<2>> /\ arn.expanded = {2, 3}

\* ---------------------------------------------------------------------
\* Add and Kron on a COO matrix and on a DiskMatrix built from the same
\* dense matrices (TestAdd, TestKron, TestDiskAdd, TestDiskKron).
MaxOps == 2

InitMat ==
  /\ LET Shapes2 == (1..PauliDim) \X (1..PauliDim)
         DenseOf(rows, cols) ==
           {d \in [(0..(rows - 1)) \X (0..(cols - 1)) -> EntryValues \cup {0}] :
              Cardinality({p \in DOMAIN d : d[p] # 0}) <= MaxNNZ}
     IN \E sa \in Shapes2, sb \in Shapes2 :
          \E da \in DenseOf(sa[1], sa[2]), db \in DenseOf(sb[1], sb[2]) :
            mat = [pc |-> "ready", n |-> 0, last |-> "none", c |-> 0,
                   a |-> M(sa[1], sa[2], da), da |-> DiskM(sa[1], sa[2], da),
                   b |-> M(sb[1], sb[2], db), db |-> DiskM(sb[1], sb[2], db),
                   pa |-> M(sa[1], sa[2], da), pda |-> DiskM(sa[1], sa[2], da)]
  /\ ms = Idle /\ fs = Idle /\ sgs = Idle /\ arn = Idle /\ eig = Idle
  /\ nrm = Idle /\ bld = Idle /\ srt = Idle

\* a.Add(c, b) on the COO matrix and on the DiskMatrix, b of the shape of a,
\* for a scalar c.
MatAdd ==
  /\ mat.pc = "ready" /\ mat.n < MaxOps
  /\ mat.a.rows = mat.b.rows /\ mat.a.cols = mat.b.cols
  /\ ~AddPanics(mat.a, mat.b)
  /\ \E c \in Scalars :
       mat' = [mat EXCEPT !.a = COOAdd(mat.a, c, mat.b),
                          !.da = DiskAdd(mat.da, c, mat.db),
                          !.pa = mat.a, !.pda = mat.da, !.c = c,
                          !.last = "Add", !.n = mat.n + 1]
  /\ UNCHANGED <<ms, fs, sgs, arn, eig, nrm, bld, srt>>

\* a.Kron(b) on the COO matrix and on the DiskMatrix; b is a COO in both.
\* The products are taken of matrices of up to PauliDim rows and columns.
MatKron ==
  /\ mat.pc = "ready" /\ mat.n < MaxOps
  /\ mat.a.rows <= PauliDim /\ mat.a.cols <= PauliDim
  /\ mat' = [mat EXCEPT !.a = COOKron(mat.a, mat.b),
                        !.da = DiskKron(mat.da, mat.b),
                        !.pa = mat.a, !.pda = mat.da,
                        !.last = "Kron", !.n = mat.n + 1]
  /\ UNCHANGED <<ms, fs, sgs, arn, eig, nrm, bld, srt>>

NextMat == MatAdd \/ MatKron
SpecMat == InitMat /\ [][NextMat]_vars

\* The stored entries are in row-major order, no position twice.
RowMajorOrder(data) ==
  \A n \in 1..(Len(data) - 1) : rowMajor(data[n], data[n + 1]) < 0
Positions(m) == (0..(m.rows - 1)) \X (0..(m.cols - 1))

\* C17 as claimed: after a.Add(c, b) with b of the shape of a, a represents
\* a + c*b, its entries are stored in row-major order, none of them is
\* zero, their number is the number of non-zero entries of a + c*b, and b is
\* as it was; for COO.Add and for DiskMatrix.Add.
C17_AddAsClaimed ==
  mat.pc = "ready" /\ mat.last = "Add" =>
    /\ \A p \in Positions(mat.pa) :
         /\ DenseAt(mat.a, p[1], p[2])
              = DenseAt(mat.pa, p[1], p[2]) + (mat.c * DenseAt(mat.b, p[1], p[2]))
         /\ DiskAt(mat.da.tbl, p[1], p[2])
              = DiskAt(mat.pda.tbl, p[1], p[2]) + (mat.c * DiskAt(mat.db.tbl, p[1], p[2]))
    /\ RowMajorOrder(mat.a.Data) /\ RowMajorOrder(DiskCOO(mat.da).Data)
    /\ \A n \in 1..Len(mat.a.Data) : mat.a.Data[n].v # 0
    /\ \A k \in DOMAIN mat.da.tbl : mat.da.tbl[k] # 0
    /\ Len(mat.a.Data)
         = Cardinality({p \in Positions(mat.pa) : DenseAt(mat.a, p[1], p[2]) # 0})
    /\ Cardinality(DOMAIN mat.da.tbl)
         = Cardinality({p \in Positions(mat.pa) : DiskAt(mat.da.tbl, p[1], p[2]) # 0})

\* C18: after a.Kron(b) the shape is (a.rows * b.rows, a.cols * b.cols), the
\* entry at (i * b.rows + k, j * b.cols + l) is a[i,j] * b[k,l], the entries
\* are stored in row-major order, and the COO matrix is Equal to the COO of
\* the DiskMatrix.
C18_Kron ==
  mat.pc = "ready" /\ mat.last = "Kron" =>
    /\ mat.a.rows = mat.pa.rows * mat.b.rows
    /\ mat.a.cols = mat.pa.cols * mat.b.cols
    /\ \A p \in Positions(mat.pa), q \in Positions(mat.b) :
         DenseAt(mat.a, (p[1] * mat.b.rows) + q[1], (p[2] * mat.b.cols) + q[2])
           = DenseAt(mat.pa, p[1], p[2]) * DenseAt(mat.b, q[1], q[2])
    /\ RowMajorOrder(mat.a.Data)
    /\ \A n \in 1..Len(mat.a.Data) :
         mat.a.Data[n].row \in 0..(mat.a.rows - 1) /\ mat.a.Data[n].col \in 0..(mat.a.cols - 1)
    /\ Equal(mat.a, DiskCOO(mat.da))

\* A Kronecker product of two matrices of different shapes with two entries
\* each has been taken.
C18_Witness ==
  /\ mat.pc = "ready" /\ mat.last = "Kron"
  /\ Len(mat.pa.Data) = 2 /\ Len(mat.b.Data) = 2
  /\ mat.pa.rows # mat.b.rows
  /\ Len(mat.a.Data) = 4

\* ---------------------------------------------------------------------
\* coo.csv written record by record, compressed as by
\* TransverseFieldIsingExplicit or in full as by WriteCOO, and read back by
\* successive calls of COOReader.Read.
MaxRecords == 3

InitCsv ==
  /\ LET Triples == {VRowCol(v, r, c) :
                       v \in Scalars, r \in 0..(PauliDim - 1), c \in 0..(PauliDim - 1)}
     IN \E data \in UNION {[1..n -> Triples] : n \in 0..MaxRecords}, compress \in BOOLEAN :
          mat = [pc |-> "write", compress |-> compress, data |-> data,
                 file |-> <<>>, prev |-> WriterPrev,
                 out |-> <<>>, rprev |-> ReaderPrev, eof |-> FALSE]
  /\ ms = Idle /\ fs = Idle /\ sgs = Idle /\ arn = Idle /\ eig = Idle
  /\ nrm = Idle /\ bld = Idle /\ srt = Idle

\* w.Write of the next triple; prev = v.
CsvWrite ==
  /\ mat.pc = "write" /\ Len(mat.file) < Len(mat.data)
  /\ LET v == mat.data[Len(mat.file) + 1] IN
     mat' = [mat EXCEPT
               !.file = Append(mat.file,
                          IF mat.compress THEN WriteCompressedRecord(v, mat.prev)
                          ELSE WriteCOO(<<v>>)[1]),
               !.prev = <<v>>]
  /\ UNCHANGED <<ms, fs, sgs, arn, eig, nrm, bld, srt>>

\* w.Flush, f.Close and NewCOOReader.
CsvClose ==
  /\ mat.pc = "write" /\ Len(mat.file) = Len(mat.data)
  /\ mat' = [mat EXCEPT !.pc = "read"]
  /\ UNCHANGED <<ms, fs, sgs, arn, eig, nrm, bld, srt>>

\* COOReader.Read returning a triple; r.prev = vrc.
CsvRead ==
  /\ mat.pc = "read" /\ Len(mat.out) < Len(mat.file)
  /\ LET v == COOReaderRead(mat.file[Len(mat.out) + 1], mat.rprev) IN
     mat' = [mat EXCEPT !.out = Append(mat.out, v), !.rprev = v]
  /\ UNCHANGED <<ms, fs, sgs, arn, eig, nrm, bld, srt>>

\* COOReader.Read returning io.EOF.
CsvEOF ==
  /\ mat.pc = "read" /\ Len(mat.out) = Len(mat.file) /\ ~mat.eof
  /\ mat' = [mat EXCEPT !.eof = TRUE]
  /\ UNCHANGED <<ms, fs, sgs, arn, eig, nrm, bld, srt>>

NextCsv == CsvWrite \/ CsvClose \/ CsvRead \/ CsvEOF
SpecCsv == InitCsv /\ [][NextCsv]_vars

\* C16: the triples that successive calls of COOReader.Read return are the
\* triples written, in their order, and io.EOF comes when all of them have
\* been returned; for the compressed and for the full records.
C16_RoundTrip ==
  mat.pc = "read" =>
    /\ Len(mat.out) <= Len(mat.data)
    /\ \A n \in 1..Len(mat.out) : mat.out[n] = mat.data[n]
    /\ mat.eof => mat.out = mat.data

\* Three triples were written compressed, one with the value field empty and
\* one with the row field empty, and read back up to io.EOF.
C16_Witness ==
  /\ mat.pc = "read" /\ mat.eof /\ mat.compress
  /\ Len(mat.data) = MaxRecords
  /\ \E n \in 1..Len(mat.file) : mat.file[n][1] = <<>> /\ mat.file[n][2] # <<>>
  /\ \E n \in 1..Len(mat.file) : mat.file[n][2] = <<>> /\ mat.file[n][1] # <<>>
  /\ \E n \in 1..Len(mat.data) : mat.data[n].v # 0 /\ mat.data[n].row # 0

\* ---------------------------------------------------------------------
\* The transverse field Ising Hamiltonian, built by Kronecker products
\* (TransverseFieldIsing) and written entry by entry
\* (TransverseFieldIsingExplicit) and read back by ReadCOO.
MaxSpins == 4

PauliX == M(PauliDim, PauliDim, [p \in (0..1) \X (0..1) |-> IF p[1] # p[2] THEN 1 ELSE 0])
PauliZ == M(PauliDim, PauliDim,
            [p \in (0..1) \X (0..1) |-> IF p[1] # p[2] THEN 0 ELSE IF p[1] = 0 THEN 1 ELSE -1])
identity == M(PauliDim, PauliDim, [p \in (0..1) \X (0..1) |-> IF p[1] = p[2] THEN 1 ELSE 0])

\* system.Scalar(1) and then, site by site, system.Kron(pauli) for the sites
\* in sel and system.Kron(identity) for the others; k is the site y*n[1]+x.
RECURSIVE System(_, _, _, _, _)
System(n, pauli, sel, k, system) ==
  IF k >= n[1] * n[2] THEN system
  ELSE System(n, pauli, sel, k + 1,
              COOKron(system, IF <<k \div n[2], k % n[2]>> \in sel THEN pauli ELSE identity))

coupling(hamiltonian, n, i, j) ==
  COOAdd(hamiltonian, -1,
         System(n, PauliZ, {i, j}, 0, [rows |-> 1, cols |-> 1, Data |-> <<VRowCol(1, 0, 0)>>]))

magnetic(hamiltonian, n, i, h) ==
  COOAdd(hamiltonian, -h,
         System(n, PauliX, {i}, 0, [rows |-> 1, cols |-> 1, Data |-> <<VRowCol(1, 0, 0)>>]))

\* bits: the numSpins binary digits of i, the most significant first.
bits(numSpins, i) == [k \in 1..numSpins |-> (i \div Pow(2, numSpins - k)) % 2]

\* bitIndex: the sum of 1 << (len(state)-1-i) over the digits i that are 1,
\* from the last digit to the first; upTo digits are still to be added.
RECURSIVE bitIndex(_, _)
bitIndex(state, upTo) ==
  IF upTo < 1 THEN 0
  ELSE (IF state[upTo] = 1 THEN Pow(2, Len(state) - upTo) ELSE 0) + bitIndex(state, upTo - 1)

\* couplingExplicit: diag is -1 for every bond (up, left) of equal spins and
\* +1 for every other bond; appended when it is not zero.
couplingExplicit(n, i, state) ==
  LET bond(yx) == (IF yx[1] >= 1 THEN {<<yx[1] - 1, yx[2]>>} ELSE {})
                    \cup (IF yx[2] >= 1 THEN {<<yx[1], yx[2] - 1>>} ELSE {})
      pairs == {<<yx, o>> \in ((0..(n[1] - 1)) \X (0..(n[2] - 1))) \X ((0..(n[1] - 1)) \X (0..(n[2] - 1))) :
                  o \in bond(yx)}
      spin(yx) == state[(yx[1] * n[2]) + yx[2] + 1]
      equal == Cardinality({pr \in pairs : spin(pr[1]) = spin(pr[2])})
      diag == (Cardinality(pairs) - equal) - equal
  IN IF diag # 0 THEN <<VRowCol(diag, i, i)>> ELSE <<>>

\* magneticExplicit: for every site the entry -h at the column of the state
\* with that spin flipped.
magneticExplicit(n, h, i, state) ==
  [idx \in 1..(n[1] * n[2]) |->
     VRowCol(-h, i,
             bitIndex([k \in 1..Len(state) |->
                         IF k # idx THEN state[k] ELSE IF state[k] = 1 THEN 0 ELSE 1],
                      Len(state)))]

InitIsing ==
  /\ \E n \in {s \in (1..MaxSpins) \X (1..MaxSpins) : s[1] * s[2] <= MaxSpins}, h \in Scalars :
       mat = [pc |-> "kron", n |-> n, h |-> h, k |-> 0, i |-> 0,
              hamiltonian |-> [rows |-> Pow(2, n[1] * n[2]), cols |-> Pow(2, n[1] * n[2]),
                               Data |-> <<>>],
              file |-> <<>>, prev |-> WriterPrev, rprev |-> ReaderPrev,
              read |-> [rows |-> 0, cols |-> 0, Data |-> <<>>]]
  /\ ms = Idle /\ fs = Idle /\ sgs = Idle /\ arn = Idle /\ eig = Idle
  /\ nrm = Idle /\ bld = Idle /\ srt = Idle

\* One site (y, x) of TransverseFieldIsing: the coupling with the site above,
\* the coupling with the site to the left, the magnetic term.
IsingSite ==
  /\ mat.pc = "kron"
  /\ LET n == mat.n
         y == mat.k \div n[2]
         x == mat.k % n[2]
         h1 == IF y - 1 >= 0 THEN coupling(mat.hamiltonian, n, <<y - 1, x>>, <<y, x>>)
               ELSE mat.hamiltonian
         h2 == IF x - 1 >= 0 THEN coupling(h1, n, <<y, x - 1>>, <<y, x>>) ELSE h1
     IN mat' = [mat EXCEPT !.hamiltonian = magnetic(h2, n, <<y, x>>, mat.h),
                           !.k = mat.k + 1,
                           !.pc = IF mat.k + 1 = n[1] * n[2] THEN "explicit" ELSE "kron"]
  /\ UNCHANGED <<ms, fs, sgs, arn, eig, nrm, bld, srt>>

\* One basis state of TransverseFieldIsingExplicit: its entries, sorted, are
\* written compressed.
ExplicitState ==
  /\ mat.pc = "explicit"
  /\ LET state == bits(mat.n[1] * mat.n[2], mat.i)
         vrcs == SortFunc(couplingExplicit(mat.n, mat.i, state)
                          \o magneticExplicit(mat.n, mat.h, mat.i, state))
         recs == [m \in 1..Len(vrcs) |->
                    WriteCompressedRecord(vrcs[m], IF m = 1 THEN mat.prev ELSE <<vrcs[m - 1]>>)]
     IN mat' = [mat EXCEPT !.file = mat.file \o recs,
                           !.prev = IF vrcs = <<>> THEN mat.prev ELSE <<vrcs[Len(vrcs)]>>,
                           !.i = mat.i + 1,
                           !.pc = IF mat.i + 1 = Pow(2, mat.n[1] * mat.n[2]) THEN "read"
                                  ELSE "explicit"]
  /\ UNCHANGED <<ms, fs, sgs, arn, eig, nrm, bld, srt>>

\* ReadCOO of the directory written: the shape, then one COOReader.Read per
\* step appended to m.Data, until io.EOF.
ExplicitRead ==
  /\ mat.pc = "read"
  /\ IF Len(mat.read.Data) < Len(mat.file)
     THEN LET v == COOReaderRead(mat.file[Len(mat.read.Data) + 1], mat.rprev) IN
          mat' = [mat EXCEPT !.read = [rows |-> mat.hamiltonian.rows,
                                       cols |-> mat.hamiltonian.cols,
                                       Data |-> Append(mat.read.Data, v)],
                             !.rprev = v]
     ELSE mat' = [mat EXCEPT !.read = [rows |-> Pow(2, mat.n[1] * mat.n[2]),
                                       cols |-> Pow(2, mat.n[1] * mat.n[2]),
                                       Data |-> mat.read.Data],
                             !.pc = "done"]
  /\ UNCHANGED <<ms, fs, sgs, arn, eig, nrm, bld, srt>>

NextIsing == IsingSite \/ ExplicitState \/ ExplicitRead
SpecIsing == InitIsing /\ [][NextIsing]_vars

\* C15 as claimed: for every lattice shape n and field h the matrix read back
\* from what TransverseFieldIsingExplicit wrote is Equal to the matrix that
\* TransverseFieldIsing built: the same shape and the same list of stored
\* entries.
C15_ExplicitEqualsKron ==
  mat.pc = "done" => Equal(mat.read, mat.hamiltonian)

\* ---------------------------------------------------------------------
\* GetStatistics and Magnetization on the same state vector. The
\* probability of basis state i is w[i] / Denom; sums of probabilities are
\* kept as sums of the w[i], so the vector is normalized when they sum to
\* Denom, and is off by more than 1e-3 otherwise.
MaxStatSpins == 2
Denom == 2

\* Mutant: the spins are never flipped to the majority.
pickSpinUp_signed(state) == [i \in 1..Len(state) |-> IF state[i] = 0 THEN -1 ELSE 1]

\* pickSpinUp: +1 for the spins of the majority value, -1 for the others;
\* when ups = downs the ones are +1.
pickSpinUp(state) ==
  LET ups == Cardinality({i \in 1..Len(state) : state[i] = 1})
      downs == Len(state) - ups
  IN IF ups < downs THEN [i \in 1..Len(state) |-> IF state[i] = 0 THEN 1 ELSE -1]
     ELSE [i \in 1..Len(state) |-> IF state[i] = 0 THEN -1 ELSE 1]

InitStat ==
  /\ \E numSpins \in 1..MaxStatSpins :
       \E w \in [0..(Pow(2, numSpins) - 1) -> 0..Denom] :
         mat = [pc |-> "loop", numSpins |-> numSpins, w |-> w, i |-> 0,
                spinUpBasis |-> [k \in 1..numSpins |-> 0],
                gsBasisM |-> 0, mBasisM |-> 0,
                gsTotalProb |-> 0, gsMagnetization |-> 0,
                totalProb |-> 0, meanM |-> 0,
                gs |-> [err |-> FALSE, num |-> 0, den |-> 1],
                m |-> [err |-> FALSE, num |-> 0, den |-> 1]]
  /\ ms = Idle /\ fs = Idle /\ sgs = Idle /\ arn = Idle /\ eig = Idle
  /\ nrm = Idle /\ bld = Idle /\ srt = Idle

\* One basis state in the loop of GetStatistics (pickSpinUp, basisM the sum
\* of spinUpBasis) and in the loop of Magnetization (basisM the absolute
\* value of the sum of +1 for a one and -1 for a zero).
StatBasis ==
  /\ mat.pc = "loop" /\ mat.i < Pow(2, mat.numSpins)
  /\ LET fullBasis == bits(mat.numSpins, mat.i)
         spinUpBasis == pickSpinUp(fullBasis)
         sum(spins, v) == Cardinality({k \in 1..Len(spins) : spins[k] = v})
         gsBasisM == sum(spinUpBasis, 1) - sum(spinUpBasis, -1)
         signed == sum(fullBasis, 1) - (Len(fullBasis) - sum(fullBasis, 1))
         mBasisM == IF signed < 0 THEN -signed ELSE signed
     IN mat' = [mat EXCEPT !.spinUpBasis = spinUpBasis,
                           !.gsBasisM = gsBasisM, !.mBasisM = mBasisM,
                           !.gsTotalProb = mat.gsTotalProb + mat.w[mat.i],
                           !.gsMagnetization = mat.gsMagnetization + (mat.w[mat.i] * gsBasisM),
                           !.totalProb = mat.totalProb + mat.w[mat.i],
                           !.meanM = mat.meanM + (mat.w[mat.i] * mBasisM),
                           !.i = mat.i + 1]
  /\ UNCHANGED <<ms, fs, sgs, arn, eig, nrm, bld, srt>>

\* After the loops: GetStatistics returns an error when totalProb is off by
\* more than 1e-3 and Magnetization / numSpins otherwise; Magnetization
\* divides meanM by totalProb when it is off, and returns meanM / numSpins.
\* The results are the fractions num / den.
StatReturn ==
  /\ mat.pc = "loop" /\ mat.i = Pow(2, mat.numSpins)
  /\ mat' = [mat EXCEPT
       !.pc = "done",
       !.gs = IF mat.gsTotalProb # Denom THEN [err |-> TRUE, num |-> 0, den |-> 1]
              ELSE [err |-> FALSE, num |-> mat.gsMagnetization, den |-> Denom * mat.numSpins],
       !.m = IF mat.totalProb # Denom
             THEN [err |-> FALSE, num |-> mat.meanM, den |-> mat.totalProb * mat.numSpins]
             ELSE [err |-> FALSE, num |-> mat.meanM, den |-> Denom * mat.numSpins]]
  /\ UNCHANGED <<ms, fs, sgs, arn, eig, nrm, bld, srt>>

NextStat == StatBasis \/ StatReturn
SpecStat == InitStat /\ [][NextStat]_vars

\* C19: for every basis state the magnetization GetStatistics uses, the sum
\* of the values pickSpinUp assigns, is |number of ones - number of zeros|,
\* is not negative, and is the value Magnetization uses; for a normalized
\* state GetStatistics returns the magnetization that Magnetization returns.
C19_AbsoluteMagnetization ==
  /\ mat.pc = "loop" /\ mat.i > 0 =>
       LET state == bits(mat.numSpins, mat.i - 1)
           ones == Cardinality({k \in 1..Len(state) : state[k] = 1})
           zeros == Cardinality({k \in 1..Len(state) : state[k] = 0})
       IN /\ mat.gsBasisM = (IF ones >= zeros THEN ones - zeros ELSE zeros - ones)
          /\ mat.gsBasisM >= 0
          /\ mat.gsBasisM = mat.mBasisM
  /\ mat.pc = "done" /\ mat.gsTotalProb = Denom =>
       /\ ~mat.gs.err /\ ~mat.m.err
       /\ mat.gs.num * mat.m.den = mat.m.num * mat.gs.den

\* GetStatistics and Magnetization have returned for a normalized state
\* that has weight on a basis state with more zeros than ones.
C19_Witness ==
  /\ mat.pc = "done" /\ mat.gsTotalProb = Denom
  /\ mat.numSpins = 2 /\ mat.w[0] > 0 /\ mat.w[1] > 0
  /\ mat.gs.num > 0

\* C20: whenever the effective Hamiltonian of site l has been built and is
\* being solved, in the right sweep and in the left sweep of every
\* iteration, every site before l is left-canonical and every site after l
\* is right-canonical.
C20_MixedCanonical ==
  sgs.pc \in {"rightSolve", "leftSolve"} =>
    \A p \in 1..Len(ms) :
      /\ p < sgs.l + 1 => LeftCanonical(ms[p])
      /\ p > sgs.l + 1 => RightCanonical(ms[p])

\* In the second iteration the Hamiltonian of an inner site is being solved
\* in the left sweep, with a site on either side of it.
C20_Witness ==
  /\ sgs.pc = "leftSolve" /\ sgs.i >= 1
  /\ sgs.l >= 1 /\ sgs.l + 1 < Len(ms)
  /\ LeftCanonical(ms[sgs.l]) /\ RightCanonical(ms[sgs.l + 2])

\* C21: the environments getH reads for site l are the all-ones tensor at
\* the ends of the chain and otherwise the L expression of the current
\* tensors of the sites before l and the R expression of the current tensors
\* of the sites after l; the rExpression of the convergence test reads the R
\* expression of the current sites 1..L-1.  No reset or outdated environment
\* is read.
C21_FreshEnvironments ==
  /\ sgs.pc \in {"rightSolve", "leftSolve"} =>
       /\ sgs.h.ok
       /\ IF sgs.l = 0 THEN sgs.h.left = OnesEnv
          ELSE sgs.h.left.kind = "L" /\ sgs.h.left.src = SubSeq(ms, 1, sgs.l)
       /\ IF sgs.l = Len(ms) - 1 THEN sgs.h.right = OnesEnv
          ELSE sgs.h.right.kind = "R" /\ sgs.h.right.src = SubSeq(ms, sgs.l + 2, Len(ms))
  /\ sgs.pc \in {"loop", "exit"} /\ sgs.log # <<>>
       /\ sgs.log[Len(sgs.log)][1] \in {"T", "F"} =>
       fs[1].kind = "R" /\ fs[1].src = ms

\* The Hamiltonian of an inner site is being solved in a left sweep from an
\* L expression and an R expression, after a convergence test has read its
\* environment.
C21_Witness ==
  /\ sgs.pc = "leftSolve" /\ sgs.l >= 1 /\ sgs.l + 1 < Len(ms)
  /\ sgs.h.left.kind = "L" /\ sgs.h.right.kind = "R"
  /\ \E n \in 1..Len(sgs.log) : sgs.log[n][1] = "F"

\* The last entry of the log, <<"start", 0>> before the first visit.
C22_LastVisit ==
  IF sgs.log = <<>> THEN <<"start", 0>> ELSE sgs.log[Len(sgs.log)]

\* C22: rightSweep visits the sites 0, 1, .., L-2 in this order and leftSweep
\* the sites L-1, .., 1; at each visit the Hamiltonian is built and handed to
\* Arnoldi for one eigenpair, then the eigenvector is written into the site,
\* the site is normalized with the remainder folded into the neighbour, the
\* environment of the neighbour is reset and the one of the site is rebuilt
\* from the normalized site; a right sweep ends without a visit of site L-1
\* and a left sweep without a visit of site 0.
C22_SweepSteps ==
  [][LET l == sgs.l
         len == Len(ms)
         written == [ms EXCEPT ![l + 1] = Eigvec(ms[l + 1], Len(sgs.log))]
     IN
     /\ sgs.pc = "rightSweep" /\ sgs'.pc = "rightSolve" =>
          /\ l \in 0..(len - 2)
          /\ IF l = 0 THEN C22_LastVisit[1] \in {"start", "F"}
             ELSE C22_LastVisit = <<"R", l - 1>>
          /\ ms' = ms
          /\ sgs'.h.ok /\ arn'.pc = "loop"
          /\ arn'.k = 1 /\ arn'.m = sgs'.h.rows
     /\ sgs.pc = "rightSolve" /\ sgs'.pc = "rightSweep" =>
          /\ arn.pc = "done" /\ arn.ret = "ok"
          /\ ms' = leftNormalize(written, l + 1)
          /\ fs'[l + 2] = ResetEnv
          /\ fs'[l + 1] = lExpression(sgs.h.left, ms'[l + 1])
          /\ sgs'.l = l + 1
     /\ sgs.pc = "rightSweep" /\ sgs'.pc = "leftSweep" =>
          /\ l = len - 1 /\ sgs'.l = len - 1
          /\ C22_LastVisit = <<"R", len - 2>>
     /\ sgs.pc = "leftSweep" /\ sgs'.pc = "leftSolve" =>
          /\ l \in 1..(len - 1)
          /\ IF l = len - 1 THEN C22_LastVisit = <<"R", len - 2>>
             ELSE C22_LastVisit = <<"L", l + 1>>
          /\ ms' = ms
          /\ sgs'.h.ok /\ arn'.pc = "loop"
          /\ arn'.k = 1 /\ arn'.m = sgs'.h.rows
     /\ sgs.pc = "leftSolve" /\ sgs'.pc = "leftSweep" =>
          /\ arn.pc = "done" /\ arn.ret = "ok"
          /\ ms' = rightNormalize(written, l + 1)
          /\ fs'[l] = ResetEnv
          /\ fs'[l + 1] = rExpression(sgs.h.right, ms'[l + 1])
          /\ sgs'.l = l - 1
     /\ sgs.pc = "leftSweep" /\ sgs'.pc = "test" =>
          /\ l = 0 /\ C22_LastVisit = <<"L", 1>>
    ]_vars

\* Both sweeps of a chain of three sites are over: the four visits are in
\* the log, the environment of site 0 is reset and site 1 holds the
\* normalized eigenvector of the last visit.
C22_Witness ==
  /\ sgs.pc = "test" /\ Len(ms) = 3 /\ Len(sgs.log) >= 4
  /\ SubSeq(sgs.log, Len(sgs.log) - 3, Len(sgs.log))
       = <<<<"R", 0>>, <<"R", 1>>, <<"L", 2>>, <<"L", 1>>>>
  /\ fs[1] = ResetEnv /\ fs[2].kind = "R" /\ fs[2].src = SubSeq(ms, 2, 3)
  /\ RightCanonical(ms[2])

\* C25: with a Krylov dimension above k >= 1 the column handed to every
\* expansion lies in 1..krylovSpaceDim-1 (1 at first, k..krylovSpaceDim-1
\* after a restart), every restart applies at least one shift, and every
\* call of iterate expands at least one column, the last one being column
\* krylovSpaceDim whose residual goes into r.
C25_StartInRange ==
  arn.pc # "idle" /\ arn.k >= 1 /\ arn.krylovSpaceDim > arn.k =>
    /\ arn.start >= 1 /\ arn.start <= arn.krylovSpaceDim - 1
    /\ arn.restarts > 0 =>
         /\ arn.k <= arn.start /\ arn.start < arn.krylovSpaceDim
         /\ Len(arn.shifts) >= 1
    /\ arn.iterates > 0 =>
         /\ arn.expanded # {}
         /\ arn.krylovSpaceDim \in arn.expanded
         /\ \A c \in arn.expanded : c >= 1 /\ c <= arn.krylovSpaceDim

\* A restart with one of two wanted pairs converged in a Krylov space of
\* dimension 3: the start is 2, one shift was applied and the next iterate
\* expanded the columns 2 and 3.
C25_Witness ==
  /\ arn.pc = "eig" /\ arn.restarts = 2
  /\ arn.k = 2 /\ arn.krylovSpaceDim = 3 /\ arn.cvg.numConverged = 1
  /\ arn.start = 2 /\ Len(arn.shifts) = 1

\* The columns j < l of q that are not orthogonal.
C23_NotOrthogonal ==
  {jl \in (1..Len(arn.q)) \X (1..Len(arn.q)) :
     jl[1] < jl[2] /\ Dot(arn.q[jl[1]], arn.q[jl[2]]) # 0}

\* C23: when iterate returns, the columns 0..krylovSpaceDim of q are unit
\* vectors orthogonal to one another, the columns injected by the collapse
\* branch included.
C23_OrthonormalAsClaimed ==
  arn.pc = "done" => C23_NotOrthogonal = {}

\* The 1 x 1 matrix (1) made iterate return two columns that are not
\* orthogonal: the second one was injected by the collapse branch.
C23_Failing ==
  /\ arn.pc = "done" /\ arn.m = 1 /\ arn.a = <<<<1>>>>
  /\ arn.random = {1} /\ C23_NotOrthogonal = {<<1, 2>>}

\* C24 as stated: three passes of gramSchimdt without fn > sinPi4*f0 make
\* the operation fail.
C24_CapFailsAsClaimed ==
  arn.pc = "done" /\ arn.caps # {} => arn.ret = "err"

\* C24: gramSchimdt makes at most 3 passes and returns fn at the first pass
\* with fn > sinPi4*f0; after three passes without it, it returns 0 and
\* iterate goes on through the collapse branch: the column is a random unit
\* vector and iterate returns q, h, r, not an error.
C24_GramSchmidtCap ==
  LET n == Len(arn.passes) IN
  /\ n <= 3
  /\ \A p \in 1..n :
       /\ p < n => ~arn.passes[p].exceeds
       /\ arn.passes[p].exceeds =>
            arn.passes[p].fn > 0 /\ 2 * arn.passes[p].fn >= arn.passes[p].f0
       /\ ~arn.passes[p].exceeds =>
            arn.passes[p].fn = 0 \/ 2 * arn.passes[p].fn <= arn.passes[p].f0
  /\ arn.pc = "gs" => arn.fNorm = "none"
  /\ arn.pc = "set" =>
       /\ n >= 1
       /\ arn.fNorm = "fn" <=> arn.passes[n].exceeds
       /\ arn.fNorm = "0" <=> n = 3 /\ ~arn.passes[n].exceeds
       /\ arn.i \in arn.caps <=> arn.fNorm = "0"
  /\ \A c \in arn.caps : c < arn.i => c \in arn.random
  /\ arn.random \subseteq arn.caps
  /\ arn.pc = "done" =>
       arn.ret = "q, h, r" /\ Len(arn.q) = arn.krylovSpaceDim + 1

\* iterate returned after gramSchimdt gave up on the residual of the last
\* column: the column before it came from a pass that met the test, the last
\* one is random.
C24_Witness ==
  /\ arn.pc = "done" /\ arn.ret = "q, h, r"
  /\ arn.krylovSpaceDim = 2 /\ arn.caps = {2} /\ arn.random = {2}
  /\ Len(arn.passes) = 3 /\ ~arn.passes[3].exceeds

\* C26: after the deflation pass of findUnreducedHessenberg on an m x m
\* matrix, q = m exactly when every subdiagonal entry is zero; otherwise the
\* entries a[i,i-1] with i >= m-q are zero, those with p < i <= m-q-1 are
\* not, and p = 0 or a[p,p-1] = 0: the rows p..m-q-1 are an unreduced block
\* of at least two rows.
C26_UnreducedBlock ==
  eig.pc = "collect" \/ (eig.pc = "inner" /\ eig.sweeps = 0) =>
    LET m == eig.m
        subs == 1..(m - 1) IN
    /\ eig.p >= 0 /\ eig.q >= 0 /\ eig.q <= m
    /\ \A i \in subs : eig.sub[i] # "s"
    /\ eig.q = m <=> \A i \in subs : eig.sub[i] = "0"
    /\ eig.q # m =>
         /\ \A i \in subs : i >= m - eig.q => eig.sub[i] = "0"
         /\ \A i \in subs : eig.p < i /\ i <= m - eig.q - 1 => eig.sub[i] # "0"
         /\ eig.p = 0 \/ eig.sub[eig.p] = "0"
         /\ (m - eig.q - 1) - eig.p + 1 >= 2

\* The block of a 4 x 4 matrix found between two zeros: rows 2..3 after the
\* zeros a[1,0] and a[2,1], with a[3,2] not zero.
C26_Witness ==
  /\ eig.pc = "inner" /\ eig.sweeps = 0 /\ eig.m = 4
  /\ eig.sub = <<"0", "0", "b">> /\ eig.p = 2 /\ eig.q = 0

\* The number of subdiagonal entries that are zero.
C27_Zeros(sub) == Cardinality({i \in 1..Len(sub) : sub[i] = "0"})

\* C27: the loop of solve ends: a subdiagonal entry that is zero stays zero,
\* an outer iteration that does not fail ends with more zero entries than it
\* started with, there are at most m-1 outer iterations of at most 32 sweeps
\* each, and solve returns.
C27_SolveTerminates ==
  /\ [](eig.blocks <= eig.m - 1 /\ eig.sweeps <= MaxSweeps)
  /\ [][/\ \A i \in 1..Len(eig.sub) : eig.sub[i] = "0" => eig'.sub[i] = "0"
        /\ eig.pc = "inner" /\ eig'.pc = "outer" =>
             C27_Zeros(eig'.sub) > C27_Zeros(eig.sub)
        /\ eig.pc = "inner" /\ eig'.pc \notin {"inner", "outer"} =>
             eig'.pc = "done" /\ eig'.ret = "err"]_vars
  /\ <>(eig.pc = "done")

\* solve returned after three outer iterations on a 4 x 4 matrix.
C27_Witness ==
  /\ eig.pc = "done" /\ eig.ret = "ok" /\ eig.m = 4 /\ eig.blocks = 3
  /\ C27_Zeros(eig.sub) = 3

\* C28: the vector back-substitution gives for the eigenvalue of index i has
\* component i equal to 1 and the components after i equal to 0, whatever
\* the multiplicity of the eigenvalue, so it is not the zero vector; a
\* degenerate pivot at another index gives the component 0.
C28_NullSpaceVector ==
  /\ \A n \in 1..Len(eig.eigvecs) :
       LET x == eig.eigvecs[n] IN
       /\ x[n] = 1
       /\ \A c \in 1..eig.m : c > n => x[c] = 0
       /\ \A c \in 1..eig.m : c # n /\ eig.a[c][c] = eig.a[n][n] => x[c] = 0
       /\ x # [c \in 1..eig.m |-> 0]
  /\ eig.pc = "back" =>
       \A c \in 1..eig.m : c > eig.row /\ eig.l[c][c] = 0 =>
         eig.x[c] = IF c = eig.i THEN 1 ELSE 0

\* The eigenvalue 1 is on the whole diagonal of a 3 x 3 matrix with entries
\* above the diagonal: the three vectors are the unit vectors.
C28_Witness ==
  /\ eig.pc = "done" /\ eig.m = 3
  /\ \A c \in 1..3 : eig.a[c][c] = 1
  /\ eig.a[1][2] = 1 /\ eig.a[2][3] = 1
  /\ eig.eigvecs = <<<<1, 0, 0>>, <<0, 1, 0>>, <<0, 0, 1>>>>

\* C29: in a sweep on a block of more than two rows the shift is zero
\* exactly when n * tol * (sigma_min / sigma_max) < max(epsilon, 0.01 * tol),
\* sigma_min and sigma_max being the estimates calcSMinMax computes for the
\* block, in this order.
C29_ZeroShiftAsClaimed ==
  srt.pc # "block" /\ srt.sweeps > 0 =>
    LET r == calcSMinMax(srt.d, srt.e) IN
    srt.shift = "zero" <=> UseZeroShift(srt.n, r[1], r[2])

\* Diagonal (8, 1, 1) and superdiagonal (8, 8): the estimates are 1/17 and
\* 8, 3 * tol * (1/17)/8 is below epsilon, and the sweep used Wilkinson's
\* shift.
C29_Failing ==
  /\ srt.pc = "sweep" /\ srt.sweeps = 1 /\ srt.n = 3
  /\ srt.d = <<8, 1, 1>> /\ srt.e = <<8, 8>>
  /\ calcSMinMax(srt.d, srt.e) = <<Frac(1, 17), Frac(8, 1)>>
  /\ srt.shift = "wilkinson"

\* ---------------------------------------------------------------------
\* Sequences of the constructors and operations of COO on two matrices.
MaxCooOps == 2

COOZeros(rows, cols) == [rows |-> rows, cols |-> cols, Data |-> <<>>]

\* COOIdentity: Zeros(rows, rows), then {1, i, i} appended for each i.
COOIdentity(rows) ==
  [rows |-> rows, cols |-> rows,
   Data |-> [n \in 1..rows |-> VRowCol(1, n - 1, n - 1)]]

\* m.Zeros(rows, cols): the shape is set and Data is emptied.
Zeros(m, rows, cols) == [m EXCEPT !.rows = rows, !.cols = cols, !.Data = <<>>]

\* m.Scalar(v): the 1 x 1 matrix with the one stored entry v.
Scalar(m, v) ==
  [m EXCEPT !.rows = 1, !.cols = 1, !.Data = <<VRowCol(v, 0, 0)>>]

\* COO.Mul: a.Data[i].v = av.v * b.m[byx], nothing is deleted from b.m; the
\* zero products are deleted from a.Data.
COOMul(a, b) ==
  LET bm == MapOf(b.Data)
      bv(i) == LET byx == ByX(a, b, a.Data[i])
               IN IF byx \in DOMAIN bm THEN bm[byx] ELSE 0
  IN [a EXCEPT !.Data = DeleteZeros([i \in 1..Len(a.Data) |->
                            [a.Data[i] EXCEPT !.v = a.Data[i].v * bv(i)]])]

\* The shapes of b that Add and Mul accept for a.
ShapesFit(a, b) ==
  \/ b.rows = 1 /\ b.cols = 1
  \/ b.rows = a.rows /\ b.cols = 1
  \/ b.rows = a.rows /\ b.cols = a.cols

InitCoo ==
  /\ ms = <<>> /\ fs = <<>>
  /\ sgs = Idle /\ arn = Idle /\ eig = Idle /\ nrm = Idle /\ bld = Idle
  /\ srt = Idle
  /\ mat = [pc |-> "ready", n |-> 0, op |-> "none",
            m |-> <<COOZeros(1, 1), COOZeros(1, 1)>>]

\* The matrix t becomes new after one more operation.
CooSet(t, new, op) ==
  mat' = [mat EXCEPT !.n = @ + 1, !.op = op,
                     !.m = [k \in 1..2 |-> IF k = t THEN new ELSE mat.m[k]]]

CooM ==
  /\ mat.pc = "ready" /\ mat.n < MaxCooOps
  /\ \E t \in 1..2, rows \in 1..PauliDim, cols \in 1..PauliDim :
       \E dense \in [(0..(rows - 1)) \X (0..(cols - 1)) -> {0, 1}] :
         CooSet(t, M(rows, cols, dense), "M")
  /\ UNCHANGED <<ms, fs, sgs, arn, eig, nrm, bld, srt>>

CooCOOZeros ==
  /\ mat.pc = "ready" /\ mat.n < MaxCooOps
  /\ \E t \in 1..2, rows \in 1..PauliDim, cols \in 1..PauliDim :
       CooSet(t, COOZeros(rows, cols), "COOZeros")
  /\ UNCHANGED <<ms, fs, sgs, arn, eig, nrm, bld, srt>>

CooCOOIdentity ==
  /\ mat.pc = "ready" /\ mat.n < MaxCooOps
  /\ \E t \in 1..2, rows \in 1..PauliDim :
       CooSet(t, COOIdentity(rows), "COOIdentity")
  /\ UNCHANGED <<ms, fs, sgs, arn, eig, nrm, bld, srt>>

CooZeros ==
  /\ mat.pc = "ready" /\ mat.n < MaxCooOps
  /\ \E t \in 1..2, rows \in 1..PauliDim, cols \in 1..PauliDim :
       CooSet(t, Zeros(mat.m[t], rows, cols), "Zeros")
  /\ UNCHANGED <<ms, fs, sgs, arn, eig, nrm, bld, srt>>

CooScalar ==
  /\ mat.pc = "ready" /\ mat.n < MaxCooOps
  /\ \E t \in 1..2, v \in Scalars :
       CooSet(t, Scalar(mat.m[t], v), "Scalar")
  /\ UNCHANGED <<ms, fs, sgs, arn, eig, nrm, bld, srt>>

CooAdd ==
  /\ mat.pc = "ready" /\ mat.n < MaxCooOps
  /\ \E t \in 1..2, c \in Scalars :
       /\ ShapesFit(mat.m[t], mat.m[3 - t])
       /\ CooSet(t, COOAdd(mat.m[t], c, mat.m[3 - t]), "Add")
  /\ UNCHANGED <<ms, fs, sgs, arn, eig, nrm, bld, srt>>

CooMul ==
  /\ mat.pc = "ready" /\ mat.n < MaxCooOps
  /\ \E t \in 1..2 :
       /\ ShapesFit(mat.m[t], mat.m[3 - t])
       /\ CooSet(t, COOMul(mat.m[t], mat.m[3 - t]), "Mul")
  /\ UNCHANGED <<ms, fs, sgs, arn, eig, nrm, bld, srt>>

CooKron ==
  /\ mat.pc = "ready" /\ mat.n < MaxCooOps
  /\ \E t \in 1..2 :
       /\ mat.m[t].rows * mat.m[3 - t].rows <= PauliDim
       /\ mat.m[t].cols * mat.m[3 - t].cols <= PauliDim
       /\ CooSet(t, COOKron(mat.m[t], mat.m[3 - t]), "Kron")
  /\ UNCHANGED <<ms, fs, sgs, arn, eig, nrm, bld, srt>>

NextCoo ==
  \/ CooM
  \/ CooCOOZeros
  \/ CooCOOIdentity
  \/ CooZeros
  \/ CooScalar
  \/ CooAdd
  \/ CooMul
  \/ CooKron

SpecCoo == InitCoo /\ [][NextCoo]_vars

\* Data is sorted strictly by (row, column).
C30_StrictlySorted(m) ==
  \A n \in 1..(Len(m.Data) - 1) : rowMajor(m.Data[n], m.Data[n + 1]) < 0
\* The two matrices have the same shape and the same entries.
C30_SameMatrix(a, b) ==
  /\ a.rows = b.rows /\ a.cols = b.cols
  /\ \A i \in 0..(a.rows - 1), j \in 0..(a.cols - 1) :
       DenseAt(a, i, j) = DenseAt(b, i, j)

\* C30: after any sequence of M, COOZeros, COOIdentity, Zeros, Scalar, Add,
\* Mul and Kron on arguments whose shapes fit, Data is sorted strictly by
\* (row, column) and holds no zero value, and Equal holds exactly for two
\* matrices of the same shape with the same entries.
C30_CooInvariants ==
  mat.pc = "ready" =>
    /\ \A t \in 1..2 :
         /\ C30_StrictlySorted(mat.m[t])
         /\ \A n \in 1..Len(mat.m[t].Data) : mat.m[t].Data[n].v # 0
    /\ Equal(mat.m[1], mat.m[2]) <=> C30_SameMatrix(mat.m[1], mat.m[2])

\* Scalar(0) and Zeros(1, 1) give the same 1 x 1 matrix, the first with a
\* stored zero: Equal does not hold.
C30_Failing ==
  /\ mat.pc = "ready" /\ mat.n = 2
  /\ mat.m[1] = [rows |-> 1, cols |-> 1, Data |-> <<VRowCol(0, 0, 0)>>]
  /\ mat.m[2] = [rows |-> 1, cols |-> 1, Data |-> <<>>]
  /\ ~Equal(mat.m[1], mat.m[2])

\* C5: after rightNormalizeAll every site 1..L-1 is right-canonical, after
\* leftNormalizeAll every site 0..L-2 is left-canonical; while the loops run,
\* the sites already processed stay canonical, and a step at site i changes
\* no site other than i and its neighbour (i-1 for right, i+1 for left).
C5_CanonicalState ==
  /\ (nrm.pc = "idle" /\ nrm.done = "right") =>
        \A p \in 2..Len(ms) : RightCanonical(ms[p])
  /\ (nrm.pc = "idle" /\ nrm.done = "left") =>
        \A p \in 1..(Len(ms) - 1) : LeftCanonical(ms[p])
  /\ nrm.pc = "right" => \A p \in (nrm.i + 1)..Len(ms) : RightCanonical(ms[p])
  /\ nrm.pc = "left" => \A p \in 1..(nrm.i - 1) : LeftCanonical(ms[p])

C5_StepFrame ==
  /\ nrm.pc = "right" =>
        \A p \in 1..Len(ms) : (p # nrm.i /\ p # nrm.i - 1) => ms'[p] = ms[p]
  /\ nrm.pc = "left" =>
        \A p \in 1..Len(ms) : (p # nrm.i /\ p # nrm.i + 1) => ms'[p] = ms[p]
  /\ nrm.pc = "idle" => ms' = ms

C5_NormalizeAllCanonical == [](C5_CanonicalState) /\ [][C5_StepFrame]_vars

C5_Witness ==
  /\ nrm.pc = "idle" /\ nrm.done = "right" /\ Len(ms) = 3
  /\ ms[2].shape[1] = 2
  /\ RightCanonical(ms[2]) /\ RightCanonical(ms[3])

\* C6: a normalize step puts the unitary factor in site i and multiplies the
\* remainder into the neighbour, so the dense state (the contraction of all
\* sites) is at every step the one the MPS had when rightNormalizeAll or
\* leftNormalizeAll was called.
C6_StatePreserved ==
  /\ product(ms) = nrm.state
  /\ (nrm.pc = "left" /\ nrm.i > 1) => LeftCanonical(ms[nrm.i - 1])
  /\ (nrm.pc = "right" /\ nrm.i < Len(ms)) => RightCanonical(ms[nrm.i + 1])

C6_Witness ==
  /\ nrm.pc = "idle" /\ nrm.done = "left" /\ nrm.calls = 2 /\ Len(ms) = 3
  /\ ms[3].val # <<Atom(3)>>
  /\ product(ms) = <<Atom(1), Atom(2), Atom(3)>>

\* C7 as claimed: NewMPS returns a right-canonical MPS, every site other than
\* one boundary site contracting over (right, up) to the identity.
C7_RightCanonicalAsClaimed ==
  (bld.pc = "done" /\ bld.op = "NewMPS") =>
     \E b \in {1, Len(ms)} :
        \A p \in 1..Len(ms) : p # b => RightCanonical(ms[p])

\* C7 amended: NewMPS returns a left-canonical MPS: every site but the last
\* contracts over (left, up) to the identity on its right bond; the last site
\* carries the norm of the state.
C7_LeftCanonical ==
  (bld.pc = "done" /\ bld.op = "NewMPS") =>
     \A p \in 1..(Len(ms) - 1) : LeftCanonical(ms[p])

C7_Witness ==
  /\ bld.pc = "done" /\ bld.op = "NewMPS" /\ bld.shape = <<2, 2, 2>>
  /\ LeftCanonical(ms[1]) /\ LeftCanonical(ms[2])
  /\ ~RightCanonical(ms[1])

\* The bond to the right of position p in the MPS of a state of this shape.
RECURSIVE BondD(_, _)
BondD(shape, p) ==
  IF p = 0 \/ p = Len(shape) THEN 1
  ELSE Min(BondD(shape, p - 1) * shape[p], Prod(shape, p + 1, Len(shape)))

\* C8: NewMPS returns one site per axis of the state; site i has the shape
\* (D_{i-1}, d_i, D_i) with D_{-1} = 1 = D_{L-1} and
\* D_i = min(D_{i-1} * d_i, d_{i+1} * ... * d_{L-1}).
C8_NewMPSShapes ==
  (bld.pc = "done" /\ bld.op = "NewMPS") =>
     /\ Len(ms) = Len(bld.shape)
     /\ \A p \in 1..Len(ms) :
           ms[p].shape = <<BondD(bld.shape, p - 1), bld.shape[p], BondD(bld.shape, p)>>
     /\ \A p \in 1..(Len(ms) - 1) : ms[p].shape[3] = ms[p + 1].shape[1]

C8_Witness ==
  /\ bld.pc = "done" /\ bld.op = "NewMPS" /\ bld.shape = <<2, 3, 2, 2>>
  /\ ms[2].shape = <<2, 3, 4>> /\ ms[3].shape = <<4, 2, 2>>

\* The bond the claim gives to the right of site i (0-based) of RandMPS.
RandBond(len, d, maxD, i) ==
  IF i = -1 \/ i = len - 1 THEN 1
  ELSE Min(maxD, Pow(d, Min(i + 1, len - 1 - i)))

\* C9: for an MPO of length L >= 2 and uniform physical extent d, RandMPS
\* returns L sites, site i of shape (b_{i-1}, d, b_i) with b_{-1} = b_{L-1} = 1
\* and b_i = min(D, d^min(i+1, L-1-i)); adjacent bonds agree, none exceeds D.
C9_RandMPSShapes ==
  (bld.pc = "done" /\ bld.op = "RandMPS") =>
     LET len == Len(bld.mpo)
         d == bld.mpo[1].shape[4] IN
     /\ Len(ms) = len
     /\ \A p \in 1..len :
           ms[p].shape = <<RandBond(len, d, bld.maxD, p - 2), d,
                           RandBond(len, d, bld.maxD, p - 1)>>
     /\ \A p \in 1..(len - 1) :
           ms[p].shape[3] = ms[p + 1].shape[1] /\ ms[p].shape[3] <= bld.maxD

C9_Witness ==
  /\ bld.pc = "done" /\ bld.op = "RandMPS" /\ Len(bld.mpo) = 4 /\ bld.maxD = 3
  /\ ms[2].shape = <<2, 2, 3>> /\ ms[3].shape = <<3, 2, 2>>

\* C10 as claimed: Ising(n, h) and MagnetizationZ(n) return an MPO of length
\* N = n0 * n1: the last row of W, then N-2 copies of W, then the first
\* column of W (stated for the lattices of at least two spins, where a first
\* and a last site exist).
C10_MPOLayout ==
  (bld.pc = "mpo" /\ bld.n[1] * bld.n[2] >= 2) =>
     LET len == bld.n[1] * bld.n[2]
         d0 == Len(bld.w)
         d1 == Len(bld.w[1]) IN
     /\ Len(bld.mpo) = len
     /\ bld.mpo[1].w = <<bld.w[d0]>> /\ bld.mpo[1].shape[1] = 1
     /\ bld.mpo[len].w = [r \in 1..d0 |-> <<bld.w[r][1]>>]
     /\ bld.mpo[len].shape[2] = 1
     /\ \A p \in 2..(len - 1) : bld.mpo[p].w = bld.w

====
